---------------------------- MODULE Spec2Model ----------------------------
(***************************************************************************)
(* A model of raft-match: a replicated spot-market matching service.       *)
(*                                                                         *)
(*   - the order book and the matcher (engine/data, engine/matchlogic),    *)
(*   - the match engine state machine (engine/matchengine.rs, engine/spot),*)
(*   - the file log store and its snapshot file (raft/storage.rs),         *)
(*   - the Raft node loop and its proposal pipeline (raft/node.rs,         *)
(*     match_service.rs).                                                  *)
(*                                                                         *)
(* Optional values (Rust's Option) are sequences of length 0 or 1.         *)
(***************************************************************************)
EXTENDS Integers, Sequences, FiniteSets, TLC

(***************************************************************************)
(* Bounds of the model.                                                    *)
(***************************************************************************)
\* number of place / cancel operations on one matcher
MaxOrders == 3
\* prices are 1..MaxPrice
MaxPrice == 2
\* quantities are 1..MaxQty
MaxQty == 2
\* number of entries committed by the cluster of the two replicas
MaxEntries == 3
\* the wall clocks of two nodes differ by at most MaxSkew seconds
MaxSkew == 1
\* number of client requests served by the node
MaxRequests == 1
\* number of nodes in the configuration file
MaxNodes == 3
\* highest term of the cluster
MaxTerm == 3
\* highest index of the log
MaxIndex == 6
\* number of times the process is killed
MaxRestarts == 2
\* a segment is created with a start index in 0..MaxStart
MaxStart == 2
\* payloads are 1..MaxPayload
MaxPayload == 3
\* number of payloads appended to one segment
MaxAppended == 3
\* calls of truncate on the one segment
MaxTruncates == 2
\* nodes of the configuration file of the leader that adds its followers
InitNodes == 4
\* records written to the segment files of the store driven by itself
MaxRecords == 4
\* number of client requests served by the node that loses and regains the
\* leadership
RegainRequests == 2
\* number of commands applied to the state machine driven by itself
MaxEngineOps == 3
\* number of snapshots a follower receives from the leader
MaxInstalls == 1
\* number of times the peer becomes unreachable
MaxBreaks == 3
\* capacity of the channel of a PeerClient (1000 in the source)
PeerChannelSize == 3
\* capacity of tx_proposals, in_mailbox and out_mailbox (1000 and 10000 in
\* the source)
MailboxSize == 1
\* the handlers running at a time: 1..ClientHandlers serve clients, the
\* others the streams of the peers
ClientHandlers == 2
MaxHandlers == 4
\* highest term of the node that loses and regains the leadership
RegainTerm == 4

VARIABLES
    \* ---- one matcher (engine/matchlogic/matcher.rs) ----
    book,        \* the matcher's OrderBook
    trades,      \* the Vec<Trade> returned by the last place_order
    crossings,   \* history: what each trade of the last place_order saw
    placedQty,   \* history: sum of the quantities of all orders placed
    tradedQty,   \* history: sum of the quantities of all trades emitted
    cancelledQty,\* history: sum of the remaining quantities taken out by cancels
    nops,        \* history: number of operations performed on the matcher
    last_op,     \* history: the last operation, its argument and what it returned
    clock,       \* the wall clock, in seconds (SystemTime::now().as_secs())
    \* ---- two nodes that apply one committed log ----
    replicas,    \* node id -> [state_machine, applied, first_index, clock,
                 \*             hash_seed, fed]
    log,         \* the committed entries of the cluster; log[i] has index i + 1
    \* ---- one running node (raft/node.rs, raft/storage.rs, server.rs) ----
    raft_group,  \* Node.raft_group, the RawNode
    store,       \* its FileStorage: [mem_storage, segments]
    files,       \* the directory of the store
    state_machine, \* Node.state_machine
    proposed,    \* Node.proposed, the proposals in flight
    last_index_snapshot, \* the local of run_background_tasks
    status,      \* "up", "panicked" (the loop is gone) or "down"
    proposals,   \* the proposals channel
    completion,  \* request -> "unsent", "pending", "true", "false", "closed"
    client,      \* request -> [kind, reply] of the handler serving it
    node_list,   \* the nodes of the configuration file
    init_task,   \* the task adding the followers: [next, waiting]
    stamped,     \* history: request -> Option of [index, term] of its entry
    fed,         \* history: the entries given to apply
    lost,        \* history: requests whose entry a later leader replaced
    applied_states, \* history: applied index -> symbols and books then
    saved,       \* history: Option of the last completed save_snapshot:
                 \* [applied, after], the applied index it was given and
                 \* the applied index at the end of its turn
    crash_info,  \* history: Option of [steps, previous] of a kill in save_snapshot
    just_restarted, \* history: the process was started and has not turned yet
    restarts,    \* history: number of kills
    \* ---- one segment file (raft/segment.rs) ----
    seg,         \* the Segment: [start_index, end_index, entry_positions]
    seg_file,    \* its file: [header, records]
    seg_hist,    \* history: [start, appended, reopened, truncates, truncated]
    \* ---- the transport to one peer (raft_client.rs) ----
    peers,       \* RaftClient.peers: Option of the PeerClient of the peer
    net,         \* the peer and the stream to it, with history
    \* ---- the handlers and the channels of the server (server.rs) ----
    server_mutex,\* the handler that holds the mutex of server::instance(), or 0
    handlers,    \* handler -> where it is in its code
    chan         \* number of items in tx_proposals and in in_mailbox

matcherVars == <<book, trades, crossings, placedQty, tradedQty, cancelledQty, nops,
                 last_op, clock>>
replicaVars == <<replicas, log>>
nodeVars == <<raft_group, store, files, state_machine, proposed,
              last_index_snapshot, status, proposals, completion, client,
              node_list, init_task, stamped, fed, lost, applied_states, saved,
              crash_info, just_restarted, restarts>>
segmentVars == <<seg, seg_file, seg_hist>>
transportVars == <<peers, net, server_mutex, handlers, chan>>
vars == <<matcherVars, replicaVars, nodeVars, segmentVars, transportVars>>

(***************************************************************************)
(* Helpers.                                                                *)
(***************************************************************************)
None == <<>>
Some(x) == <<x>>

MinOf(a, b) == IF a <= b THEN a ELSE b
MaxOf(a, b) == IF a >= b THEN a ELSE b

SetMax(S) == CHOOSE x \in S : \A y \in S : y <= x
SetMin(S) == CHOOSE x \in S : \A y \in S : x <= y

\* f without key k ; f with key k bound to v (BTreeMap / HashMap remove, insert)
MapRemove(f, k) == [x \in (DOMAIN f) \ {k} |-> f[x]]
MapInsert(f, k, v) == [x \in (DOMAIN f) \cup {k} |-> IF x = k THEN v ELSE f[x]]
EmptyMap == [x \in {} |-> 0]

RECURSIVE SeqSum(_)
SeqSum(s) == IF s = <<>> THEN 0 ELSE Head(s) + SeqSum(Tail(s))

\* Vec::retain
RECURSIVE Retain(_, _)
Retain(s, id) ==
    IF s = <<>> THEN <<>>
    ELSE IF Head(s).id # id THEN <<Head(s)>> \o Retain(Tail(s), id)
         ELSE Retain(Tail(s), id)

(***************************************************************************)
(* Order (engine/entry/order.rs).                                          *)
(***************************************************************************)
Prices == 1..MaxPrice
Qtys == 1..MaxQty
OrderIds == 1..MaxOrders
OrderTypes == {"Market", "Limit"}
OrderSides == {"Buy", "Sell"}

\* Order::new: a fresh order, nothing filled, status New
NewOrder(id, symbol, otype, side, price, quantity, now) ==
    [id |-> id, symbol |-> symbol, order_type |-> otype, side |-> side,
     price |-> price, quantity |-> quantity, filled_quantity |-> 0,
     status |-> "New", created_at |-> now, updated_at |-> now]

remaining_quantity(o) == o.quantity - o.filled_quantity

is_filled(o) == o.filled_quantity >= o.quantity

\* update_status reads the wall clock
update_status(o, now) ==
    [o EXCEPT !.status = IF is_filled(o) THEN "Filled"
                         ELSE IF o.filled_quantity > 0 THEN "PartiallyFilled"
                         ELSE @,
              !.updated_at = now]

(***************************************************************************)
(* OrderBook (engine/data/orderbook.rs).  bids and asks map a price to the *)
(* Vec of the orders resting at it; a key is present as long as the map    *)
(* holds it, also with an empty Vec.                                       *)
(***************************************************************************)
NewBook == [bids |-> EmptyMap, asks |-> EmptyMap, orders_by_id |-> EmptyMap]

add_order(b, order) ==
    LET side == IF order.side = "Buy" THEN b.bids ELSE b.asks
        level == IF order.price \in DOMAIN side THEN side[order.price] ELSE <<>>
        side2 == MapInsert(side, order.price, Append(level, order))
        byid == MapInsert(b.orders_by_id, order.id, order)
    IN  IF order.side = "Buy"
        THEN [b EXCEPT !.bids = side2, !.orders_by_id = byid]
        ELSE [b EXCEPT !.asks = side2, !.orders_by_id = byid]

\* returns [book, removed]: removed is the Option<Order>
remove_order_KeepLevel(b, order_id) ==
    IF order_id \in DOMAIN b.orders_by_id
    THEN LET order == b.orders_by_id[order_id]
             byid == MapRemove(b.orders_by_id, order_id)
             side == IF order.side = "Buy" THEN b.bids ELSE b.asks
             side2 == IF order.price \in DOMAIN side
                      THEN MapInsert(side, order.price,
                                     Retain(side[order.price], order_id))
                      ELSE side
         IN  [book |-> IF order.side = "Buy"
                       THEN [b EXCEPT !.bids = side2, !.orders_by_id = byid]
                       ELSE [b EXCEPT !.asks = side2, !.orders_by_id = byid],
              removed |-> Some(order)]
    ELSE [book |-> b, removed |-> None]
remove_order(b, order_id) ==
    IF order_id \in DOMAIN b.orders_by_id
    THEN LET order == b.orders_by_id[order_id]
             byid == MapRemove(b.orders_by_id, order_id)
             side == IF order.side = "Buy" THEN b.bids ELSE b.asks
             side2 == IF order.price \in DOMAIN side
                      THEN LET kept == Retain(side[order.price], order_id)
                           IN  IF kept = <<>> THEN MapRemove(side, order.price)
                               ELSE MapInsert(side, order.price, kept)
                      ELSE side
         IN  [book |-> IF order.side = "Buy"
                       THEN [b EXCEPT !.bids = side2, !.orders_by_id = byid]
                       ELSE [b EXCEPT !.asks = side2, !.orders_by_id = byid],
              removed |-> Some(order)]
    ELSE [book |-> b, removed |-> None]

get_best_bid(b) == IF DOMAIN b.bids = {} THEN None ELSE Some(SetMax(DOMAIN b.bids))

get_best_ask_Highest(b) ==
    IF DOMAIN b.asks = {} THEN None ELSE Some(SetMax(DOMAIN b.asks))
get_best_ask(b) == IF DOMAIN b.asks = {} THEN None ELSE Some(SetMin(DOMAIN b.asks))

(***************************************************************************)
(* Matcher (engine/matchlogic/matcher.rs).  A match result is              *)
(* [book, order, trades, crossings]: the book and the taker after the      *)
(* loop, the trades pushed in order, and for each trade what the loop read *)
(* when it made it.                                                        *)
(***************************************************************************)
\* Trade::new; the id (a fresh UUID) and created_at are never stored
NewTrade(symbol, price, quantity, buyer, seller) ==
    [symbol |-> symbol, price |-> price, quantity |-> quantity,
     buyer_order_id |-> buyer, seller_order_id |-> seller]

\* the quantity of one crossing
TradeQuantityTakerOnly(taker, maker) == remaining_quantity(taker)
TradeQuantity(taker, maker) ==
    MinOf(remaining_quantity(taker), remaining_quantity(maker))

\* the price of one crossing: the key of the level the maker rests in
TradePriceOfTaker(taker, level_price) == taker.price
TradePrice(taker, level_price) == level_price

\* Vec::push of a trade
PushTradeFront(ts, t) == <<t>> \o ts
PushTrade(ts, t) == Append(ts, t)

RECURSIVE match_market_loop(_, _, _, _, _)
match_market_loop(b, order, ts, cs, now) ==
    LET done == [book |-> b, order |-> order, trades |-> ts, crossings |-> cs]
    IN
    IF is_filled(order) THEN done
    ELSE
    LET best_price == IF order.side = "Buy" THEN get_best_ask(b) ELSE get_best_bid(b)
    IN
    IF best_price = None THEN done
    ELSE
    LET price == best_price[1]
        side == IF order.side = "Buy" THEN b.asks ELSE b.bids
    IN
    IF price \notin DOMAIN side THEN done
    ELSE IF side[price] = <<>> THEN done
    ELSE
    LET orders == side[price]
        matching_order == orders[1]
        trade_quantity == TradeQuantity(order, matching_order)
        trade == NewTrade(order.symbol, TradePrice(order, price), trade_quantity,
                          IF order.side = "Buy" THEN order.id ELSE matching_order.id,
                          IF order.side = "Buy" THEN matching_order.id ELSE order.id)
        seen == [taker_remaining |-> remaining_quantity(order),
                 maker_remaining |-> remaining_quantity(matching_order),
                 maker_price |-> matching_order.price,
                 maker_id |-> matching_order.id,
                 taker |-> order,
                 opposing |-> side,
                 nth |-> Len(cs) + 1]
        order2 == update_status(
                    [order EXCEPT !.filled_quantity = @ + trade_quantity], now)
        maker2 == update_status(
                    [matching_order EXCEPT !.filled_quantity = @ + trade_quantity], now)
        orders2 == IF is_filled(maker2) THEN Tail(orders)
                   ELSE <<maker2>> \o Tail(orders)
        side2 == IF is_filled(maker2) /\ orders2 = <<>>
                 THEN MapRemove(side, price)
                 ELSE MapInsert(side, price, orders2)
        b2 == IF order.side = "Buy" THEN [b EXCEPT !.asks = side2]
              ELSE [b EXCEPT !.bids = side2]
    IN  match_market_loop(b2, order2, PushTrade(ts, trade), Append(cs, seen), now)

match_market_order(b, order, now) == match_market_loop(b, order, <<>>, <<>>, now)

\* the while loop of match_limit_order over r = [book, order, trades,
\* crossings]
RECURSIVE match_limit_loop(_, _)
match_limit_loop(r, now) ==
    IF is_filled(r.order) THEN r
    ELSE
    LET can_match ==
            IF r.order.side = "Buy"
            THEN IF get_best_ask(r.book) # None
                 THEN r.order.price >= get_best_ask(r.book)[1]
                 ELSE FALSE
            ELSE IF get_best_bid(r.book) # None
                 THEN r.order.price <= get_best_bid(r.book)[1]
                 ELSE FALSE
    IN
    IF ~can_match THEN r
    ELSE \* trades.extend(self.match_market_order(order))
         match_limit_loop(
             match_market_loop(r.book, r.order, r.trades, r.crossings, now), now)

\* match_limit_order that never looks at the opposing side
match_limit_order_NoMatch(b, order, now) ==
    [book |-> b, order |-> order, trades |-> <<>>, crossings |-> <<>>]

match_limit_order(b, order, now) ==
    match_limit_loop([book |-> b, order |-> order, trades |-> <<>>,
                      crossings |-> <<>>], now)

\* Matcher::place_order, the match by the type of the order
match_by_type(b, order, now) ==
    IF order.order_type = "Market"
    THEN match_market_order(b, order, now)
    ELSE match_limit_order(b, order, now)

\* Matcher::place_order after the match r: the order that is not filled
\* goes to the book; returns [book, trades, crossings]
rest_unfilled_Never(r) ==
    [book |-> r.book, trades |-> r.trades, crossings |-> r.crossings]
rest_unfilled(r) ==
    [book |-> IF ~is_filled(r.order) THEN add_order(r.book, r.order)
              ELSE r.book,
     trades |-> r.trades,
     crossings |-> r.crossings]

\* Matcher::place_order: returns [book, trades, crossings]
place_order(b, order, now) == rest_unfilled(match_by_type(b, order, now))

\* Matcher::cancel_order
cancel_order(b, order_id) == remove_order(b, order_id)

\* the orders resting in one ladder, level after level
RECURSIVE LadderOrders(_)
LadderOrders(side) ==
    IF DOMAIN side = {} THEN <<>>
    ELSE LET p == SetMin(DOMAIN side)
         IN  side[p] \o LadderOrders(MapRemove(side, p))

\* sum over bids and asks of remaining_quantity
RestingQty(b) ==
    LET os == LadderOrders(b.bids) \o LadderOrders(b.asks)
    IN  SeqSum([i \in 1..Len(os) |-> remaining_quantity(os[i])])

(***************************************************************************)
(* Symbol (engine/entry/symbol.rs).                                        *)
(***************************************************************************)
SymbolNames == <<"s1", "s2">>

NameRank(name) == CHOOSE i \in 1..Len(SymbolNames) : SymbolNames[i] = name

\* Symbol::new: status Active
NewSymbol(name, min_price, max_price, min_quantity, max_quantity) ==
    [name |-> name, min_price |-> min_price, max_price |-> max_price,
     min_quantity |-> min_quantity, max_quantity |-> max_quantity,
     status |-> "Active"]

validate_price(symbol, price) ==
    price >= symbol.min_price /\ price <= symbol.max_price

validate_quantity(symbol, quantity) ==
    quantity >= symbol.min_quantity /\ quantity <= symbol.max_quantity

(***************************************************************************)
(* MatchEngine, OrderProcessor, SymbolManager (engine/matchengine.rs,      *)
(* engine/spot).  The engine is [index, symbols, matchers]; a matcher is   *)
(* its order book.  A command (MatchCmd) is [cmd, order, symbol] with the  *)
(* two Options; the bytes of an entry are the command they decode to.      *)
(***************************************************************************)
MatchCmdTypes ==
    {"PlaceOrder", "CancelOrder", "CreateSymbol", "UpdateSymbol", "RemoveSymbol"}

MatchCmd(cmd, order, symbol) == [cmd |-> cmd, order |-> order, symbol |-> symbol]

NewMatchEngine == [index |-> 0, symbols |-> EmptyMap, matchers |-> EmptyMap]

\* SymbolManager::add_symbol: an existing name is an error, nothing changes
add_symbol(e, symbol) ==
    IF symbol.name \in DOMAIN e.symbols THEN e
    ELSE [e EXCEPT !.symbols = MapInsert(@, symbol.name, symbol),
                   !.matchers = MapInsert(@, symbol.name, NewBook)]

\* SymbolManager::delist_symbol: the symbol stays, Delisted; its matcher goes
delist_symbol(e, name) ==
    IF name \in DOMAIN e.symbols
    THEN [e EXCEPT !.symbols[name].status = "Delisted",
                   !.matchers = MapRemove(@, name)]
    ELSE e

\* SymbolManager::get_symbol_and_matcher is Some
get_symbol_and_matcher(e, name) ==
    name \in DOMAIN e.symbols /\ name \in DOMAIN e.matchers

\* OrderProcessor::place_order that leaves out validate_quantity
OrderProcessor_place_order_AnyQuantity(e, order, now) ==
    IF ~get_symbol_and_matcher(e, order.symbol) THEN e
    ELSE IF e.symbols[order.symbol].status # "Active" THEN e
    ELSE IF ~validate_price(e.symbols[order.symbol], order.price) THEN e
    ELSE [e EXCEPT !.matchers[order.symbol] = place_order(@, order, now).book]

\* OrderProcessor::place_order; the trades are dropped by the engine
OrderProcessor_place_order(e, order, now) ==
    IF ~get_symbol_and_matcher(e, order.symbol) THEN e
    ELSE IF e.symbols[order.symbol].status # "Active" THEN e
    ELSE IF ~validate_price(e.symbols[order.symbol], order.price) THEN e
    ELSE IF ~validate_quantity(e.symbols[order.symbol], order.quantity) THEN e
    ELSE [e EXCEPT !.matchers[order.symbol] = place_order(@, order, now).book]

\* OrderProcessor::cancel_order
OrderProcessor_cancel_order(e, symbol_id, order_id) ==
    IF ~get_symbol_and_matcher(e, symbol_id) THEN e
    ELSE IF e.symbols[symbol_id].status # "Active" THEN e
    ELSE [e EXCEPT !.matchers[symbol_id] = cancel_order(@, order_id).book]

\* bytes that bincode does not decode as a MatchCmd: on_message takes its
\* Err arm, the arm OTHER below
Garbage == [cmd |-> "Undecodable", order |-> None, symbol |-> None]

\* MatchEngine::on_message
on_message(e, index, cmd, now) ==
    LET e2 == [e EXCEPT !.index = index]
    IN  CASE cmd.cmd = "PlaceOrder" ->
                OrderProcessor_place_order(e2, cmd.order[1], now)
          [] cmd.cmd = "CancelOrder" ->
                OrderProcessor_cancel_order(e2, cmd.order[1].symbol, cmd.order[1].id)
          [] cmd.cmd = "CreateSymbol" -> add_symbol(e2, cmd.symbol[1])
          [] cmd.cmd = "RemoveSymbol" -> delist_symbol(e2, cmd.symbol[1].name)
          [] OTHER -> e2

\* the order in which a HashMap hands out its keys: it depends on the
\* random keys the process gave the map's hasher (seed)
HashSeeds == {0, 1}

RECURSIVE IterOrder(_, _)
IterOrder(S, seed) ==
    IF S = {} THEN <<>>
    ELSE LET k == IF seed = 0 THEN SetMin(S) ELSE SetMax(S)
         IN  <<k>> \o IterOrder(S \ {k}, seed)

\* bincode of a BTreeMap: the pairs by ascending key
SerializeBTreeMap(f) ==
    LET ord == IterOrder(DOMAIN f, 0)
    IN  [i \in 1..Len(ord) |-> <<ord[i], f[ord[i]]>>]

\* bincode of a HashMap keyed by order id: the pairs in iteration order
SerializeByIdMap(f, seed) ==
    LET ord == IterOrder(DOMAIN f, seed)
    IN  [i \in 1..Len(ord) |-> <<ord[i], f[ord[i]]>>]

\* bincode of a HashMap keyed by symbol name: the pairs in iteration order
SerializeByNameMap(f, seed) ==
    LET ord == IterOrder({NameRank(n) : n \in DOMAIN f}, seed)
    IN  [i \in 1..Len(ord) |-> <<SymbolNames[ord[i]], f[SymbolNames[ord[i]]]>>]

\* bincode::deserialize of a map
DeserializeMap(pairs) ==
    [k \in {pairs[i][1] : i \in 1..Len(pairs)} |->
        (CHOOSE p \in {pairs[i] : i \in 1..Len(pairs)} : p[1] = k)[2]]

SerializeBook(b, seed) ==
    [bids |-> SerializeBTreeMap(b.bids), asks |-> SerializeBTreeMap(b.asks),
     orders_by_id |-> SerializeByIdMap(b.orders_by_id, seed)]

DeserializeBook(bytes) ==
    [bids |-> DeserializeMap(bytes.bids), asks |-> DeserializeMap(bytes.asks),
     orders_by_id |-> DeserializeMap(bytes.orders_by_id)]

\* MatchEngine::snapshot: bincode::serialize(&self)
MatchEngine_snapshot(e, seed) ==
    [index |-> e.index,
     symbols |-> SerializeByNameMap(e.symbols, seed),
     matchers |-> SerializeByNameMap(
                     [n \in DOMAIN e.matchers |-> SerializeBook(e.matchers[n], seed)],
                     seed)]

\* MatchEngine::on_snapshot: *self = bincode::deserialize(data)
MatchEngine_on_snapshot(e, bytes) ==
    LET ms == DeserializeMap(bytes.matchers)
    IN  [index |-> bytes.index,
         symbols |-> DeserializeMap(bytes.symbols),
         matchers |-> [n \in DOMAIN ms |-> DeserializeBook(ms[n])]]

(***************************************************************************)
(* StateMatch (state_match.rs): the state machine handed to the node.      *)
(* The data of an entry or of a snapshot is a sequence of length 0 (no     *)
(* bytes) or 1 (the bytes).                                                *)
(***************************************************************************)
NewStateMatch == NewMatchEngine

apply(sm, index, data, now) == on_message(sm, index, data[1], now)

snapshot(sm, seed) == Some(MatchEngine_snapshot(sm, seed))

on_snapshot(sm, data) ==
    IF data # <<>> THEN MatchEngine_on_snapshot(sm, data[1]) ELSE sm

\* the symbols and order books of a state machine, without the wall-clock
\* stamps of the orders
StripOrder(o) == [o EXCEPT !.updated_at = 0]

StripLadder(side) ==
    [p \in DOMAIN side |-> [i \in 1..Len(side[p]) |-> StripOrder(side[p][i])]]

StripBook(b) ==
    [bids |-> StripLadder(b.bids), asks |-> StripLadder(b.asks),
     orders_by_id |-> [id \in DOMAIN b.orders_by_id |-> StripOrder(b.orders_by_id[id])]]

CoreState(sm) ==
    [symbols |-> sm.symbols,
     matchers |-> [n \in DOMAIN sm.matchers |-> StripBook(sm.matchers[n])]]

(***************************************************************************)
(* Log entries and the handlers of the node that feed the state machine    *)
(* (raft/node.rs).  An entry is [index, term, entry_type, data].           *)
(***************************************************************************)
Entry(index, term, entry_type, data) ==
    [index |-> index, term |-> term, entry_type |-> entry_type, data |-> data]

ConfChange(change_type, node_id) == [change_type |-> change_type, node_id |-> node_id]

\* RawNode::apply_conf_change: the voters after the change
apply_conf_change(voters, cc) ==
    IF cc.change_type = "AddNode" THEN voters \cup {cc.node_id}
    ELSE voters \ {cc.node_id}

\* Node::handle_committed_entries over st = [state_machine, conf_state,
\* last_index, fed]; fed is the history of what was given to apply
RECURSIVE handle_committed_loop(_, _, _)
handle_committed_loop(st, entries, now) ==
    IF entries = <<>> THEN st
    ELSE LET entry == Head(entries)
             st2 == IF entry.data = <<>> THEN st
                    ELSE IF entry.entry_type = "EntryConfChange"
                    THEN [st EXCEPT !.conf_state = apply_conf_change(@, entry.data[1]),
                                    !.last_index = entry.index]
                    ELSE [st EXCEPT !.state_machine = apply(@, entry.index, entry.data, now),
                                    !.fed = Append(@, [index |-> entry.index,
                                                       term |-> entry.term,
                                                       data |-> entry.data]),
                                    !.last_index = entry.index]
         IN  handle_committed_loop(st2, Tail(entries), now)

handle_committed_entries(sm, conf_state, given, entries, now) ==
    handle_committed_loop([state_machine |-> sm, conf_state |-> conf_state,
                           last_index |-> 0, fed |-> given], entries, now)

\* a snapshot that claims one index more than it covers
MemStorage_snapshot_Ahead(commit, term, conf_state, request_index) ==
    [index |-> MaxOf(commit, request_index) + 1, term |-> term,
     conf_state |-> conf_state, data |-> <<>>]

\* Storage::snapshot of the store: MemStorage builds the snapshot from its
\* hard state; it carries the metadata and no data
MemStorage_snapshot(commit, term, conf_state, request_index) ==
    [index |-> MaxOf(commit, request_index), term |-> term,
     conf_state |-> conf_state, data |-> <<>>]

\* Node::handle_snapshot, the state machine's part
handle_snapshot(sm, snap) == on_snapshot(sm, snap.data)

(***************************************************************************)
(* MemStorage, the working set of the store (raft/storage.rs keeps all   *)
(* log reads and the hard state in it).  A result with ok = FALSE is a     *)
(* panic or an error of the call.                                          *)
(***************************************************************************)
SnapshotMetadata(index, term, conf_state) ==
    [index |-> index, term |-> term, conf_state |-> conf_state]

HardState(term, vote, commit) == [term |-> term, vote |-> vote, commit |-> commit]

NewMemStorage ==
    [snapshot_metadata |-> SnapshotMetadata(0, 0, {}), entries |-> <<>>,
     hard_state |-> HardState(0, 0, 0), conf_state |-> {}]

first_index(m) ==
    IF m.entries # <<>> THEN m.entries[1].index ELSE m.snapshot_metadata.index + 1

last_index(m) ==
    IF m.entries # <<>> THEN m.entries[Len(m.entries)].index
    ELSE m.snapshot_metadata.index

\* the term of index i of the working set, 0 where it has none
mem_term(m, i) ==
    IF i = m.snapshot_metadata.index THEN m.snapshot_metadata.term
    ELSE IF m.entries # <<>> /\ i >= m.entries[1].index /\ i <= last_index(m)
    THEN m.entries[i - m.entries[1].index + 1].term
    ELSE 0

MemStorage_apply_snapshot(m, snap) ==
    IF first_index(m) > snap.index THEN [ok |-> FALSE, mem |-> m]
    ELSE [ok |-> TRUE,
          mem |-> [snapshot_metadata |->
                       SnapshotMetadata(snap.index, snap.term, snap.conf_state),
                   entries |-> <<>>,
                   hard_state |-> [m.hard_state EXCEPT
                                     !.term = MaxOf(@, snap.term),
                                     !.commit = snap.index],
                   conf_state |-> snap.conf_state]]

\* MemStorage::append: panics when the entries overwrite compacted ones or
\* leave a hole; else cuts the working set at the first new index
MemStorage_append(m, ents) ==
    IF ents = <<>> THEN [ok |-> TRUE, mem |-> m]
    ELSE IF first_index(m) > ents[1].index THEN [ok |-> FALSE, mem |-> m]
    ELSE IF last_index(m) + 1 < ents[1].index THEN [ok |-> FALSE, mem |-> m]
    ELSE [ok |-> TRUE,
          mem |-> [m EXCEPT !.entries =
                      SubSeq(@, 1, ents[1].index - first_index(m)) \o ents]]

\* MemStorage::compact: drops the entries below compact_index
MemStorage_compact(m, compact_index) ==
    IF compact_index <= first_index(m) THEN [ok |-> TRUE, mem |-> m]
    ELSE IF compact_index > last_index(m) + 1 THEN [ok |-> FALSE, mem |-> m]
    ELSE [ok |-> TRUE,
          mem |-> [m EXCEPT !.entries =
                      SubSeq(@, compact_index - first_index(m) + 1, Len(@))]]

\* FileStorage::snapshot
FileStorage_snapshot(m, request_index) ==
    MemStorage_snapshot(m.hard_state.commit, mem_term(m, m.hard_state.commit),
                        m.conf_state, request_index)

(***************************************************************************)
(* Segment (raft/segment.rs).  A segment file is [header, records]: the    *)
(* header holds start_index and end_index, the records are the entries in  *)
(* the order they were written.  The struct of an open segment is          *)
(* [start_index, end_index, entry_positions]; a position is the number of  *)
(* the record in the file.                                                 *)
(***************************************************************************)
\* entries go to the segment named after their index rounded down to this
SegmentStride == 10000

SegmentHeader(start_index, end_index) ==
    [start_index |-> start_index, end_index |-> end_index]

\* Segment::new on a path without a file: creates the file, writes the header
Segment_create(start_index) ==
    [segment |-> [start_index |-> start_index, end_index |-> start_index,
                  entry_positions |-> EmptyMap],
     file |-> [header |-> SegmentHeader(start_index, start_index), records |-> <<>>]]

\* Segment::new on an existing file: read_header, rebuild_entry_positions
Segment_open(file) ==
    [start_index |-> file.header.start_index,
     end_index |-> file.header.end_index,
     entry_positions |-> [i \in file.header.start_index ..
                                  file.header.start_index + Len(file.records) - 1
                            |-> i - file.header.start_index + 1]]

\* Segment::append
RECURSIVE Segment_append(_, _, _)
Segment_append(segment, file, entries) ==
    IF entries = <<>>
    THEN [segment |-> segment,
          file |-> [file EXCEPT !.header =
                      SegmentHeader(segment.start_index, segment.end_index)]]
    ELSE LET entry_index == segment.end_index + 1
             file2 == [file EXCEPT !.records = Append(@, Head(entries))]
             segment2 == [segment EXCEPT
                            !.entry_positions =
                                MapInsert(@, entry_index, Len(file2.records)),
                            !.end_index = entry_index]
         IN  Segment_append(segment2, file2, Tail(entries))

\* Segment::read_entry: the Option of the record read; a position at or
\* after the end of the file makes read_exact fail
Segment_read_entry(segment, file, index) ==
    IF index < segment.start_index \/ index > segment.end_index THEN None
    ELSE IF index \notin DOMAIN segment.entry_positions THEN None
    ELSE IF segment.entry_positions[index] > Len(file.records) THEN None
    ELSE Some(file.records[segment.entry_positions[index]])

\* Segment::truncate: [ok, segment, file].  set_len cuts the file at the
\* position of the entry of index, the position where that entry begins
Segment_truncate(segment, file, index) ==
    IF index < segment.start_index \/ index > segment.end_index
    THEN [ok |-> FALSE, segment |-> segment, file |-> file]
    ELSE IF index \notin DOMAIN segment.entry_positions
    THEN [ok |-> TRUE, segment |-> segment, file |-> file]
    ELSE [ok |-> TRUE,
          segment |-> [segment EXCEPT
                         !.end_index = index,
                         !.entry_positions =
                             [j \in {x \in DOMAIN @ : x <= index} |-> @[j]]],
          file |-> [header |-> SegmentHeader(segment.start_index, index),
                    records |-> SubSeq(file.records, 1,
                                       segment.entry_positions[index] - 1)]]

\* Segment::is_empty
Segment_is_empty(segment) == segment.end_index < segment.start_index

\* the entries FileStorage::new reads from one segment, from start_index on
RECURSIVE Segment_read_all(_, _, _)
Segment_read_all(segment, file, current_index) ==
    LET r == Segment_read_entry(segment, file, current_index)
    IN  IF r = None THEN <<>>
        ELSE <<r[1]>> \o Segment_read_all(segment, file, current_index + 1)

(***************************************************************************)
(* FileStorage (raft/storage.rs).  The store of a running node is        *)
(* [mem_storage, segments]; its directory is files = [snapshot,          *)
(* snapshot_tmp, snapshot_files, segment_files]: the file "snapshot", the  *)
(* file "snapshot.tmp", the files "snapshot_<index>" by index, and the     *)
(* segment files by start index.                                           *)
(***************************************************************************)
NewFiles ==
    [snapshot |-> None, snapshot_tmp |-> None, snapshot_files |-> EmptyMap,
     segment_files |-> EmptyMap]

\* the snapshot a bootstrap node without a snapshot file starts from
BootstrapSnapshot == [index |-> 1, term |-> 1, conf_state |-> {1}, data |-> <<>>]

segment_start(index) == (index \div SegmentStride) * SegmentStride

\* FileStorage::new, the loop over the segment files by ascending start
\* index: the open segments and the entries above last read from them
RECURSIVE LoadSegments(_, _, _)
LoadSegments(segment_files, starts, last) ==
    IF starts = {} THEN [segments |-> EmptyMap, entries |-> <<>>]
    ELSE LET s == SetMin(starts)
             segment == Segment_open(segment_files[s])
             read == Segment_read_all(segment, segment_files[s], s)
             rest == LoadSegments(segment_files, starts \ {s}, last)
         IN  [segments |-> MapInsert(rest.segments, s, segment),
              entries |-> SelectSeq(read, LAMBDA e : e.index > last) \o rest.entries]

\* FileStorage::new: [ok, store]
FileStorage_new(dir, bootstrap) ==
    LET r1 == IF dir.snapshot # None
              THEN MemStorage_apply_snapshot(NewMemStorage, dir.snapshot[1])
              ELSE IF bootstrap
              THEN MemStorage_apply_snapshot(NewMemStorage, BootstrapSnapshot)
              ELSE [ok |-> TRUE, mem |-> NewMemStorage]
        ld == LoadSegments(dir.segment_files, DOMAIN dir.segment_files,
                           last_index(r1.mem))
        r2 == MemStorage_append(r1.mem, ld.entries)
    IN  [ok |-> r1.ok /\ r2.ok,
         store |-> [mem_storage |-> r2.mem, segments |-> ld.segments]]

\* FileStorage::append_entries, the loop over the groups of entries by
\* segment: [segments, segment_files]
RECURSIVE AppendGroups(_, _, _, _)
AppendGroups(segments, segment_files, entries, starts) ==
    IF starts = {} THEN [segments |-> segments, segment_files |-> segment_files]
    ELSE LET s == SetMin(starts)
             group == SelectSeq(entries, LAMBDA e : segment_start(e.index) = s)
             \* get_or_create_segment
             opened == IF s \in DOMAIN segments
                       THEN [segment |-> segments[s], file |-> segment_files[s]]
                       ELSE IF s \in DOMAIN segment_files
                       THEN [segment |-> Segment_open(segment_files[s]),
                             file |-> segment_files[s]]
                       ELSE Segment_create(s)
             a == Segment_append(opened.segment, opened.file, group)
         IN  AppendGroups(MapInsert(segments, s, a.segment),
                          MapInsert(segment_files, s, a.file),
                          entries, starts \ {s})

\* FileStorage::append_entries: [ok, io_error, store, files].  ok is FALSE
\* when MemStorage::append panics, io_error is TRUE when it returns Err
FileStorage_append_entries(fst, dir, entries) ==
    LET r == MemStorage_append(fst.mem_storage, entries)
        g == AppendGroups(fst.segments, dir.segment_files, entries,
                          {segment_start(entries[i].index) : i \in 1..Len(entries)})
    IN  IF ~r.ok
        THEN [ok |-> FALSE, io_error |-> FALSE, store |-> fst, files |-> dir]
        ELSE [ok |-> TRUE, io_error |-> FALSE,
              store |-> [mem_storage |-> r.mem, segments |-> g.segments],
              files |-> [dir EXCEPT !.segment_files = g.segment_files]]

\* FileStorage::append_entries when the segment file cannot be opened or
\* written: the entries are in the MemStorage already, no record is written
FileStorage_append_entries_io_error(fst, dir, entries) ==
    LET r == MemStorage_append(fst.mem_storage, entries)
    IN  IF ~r.ok
        THEN [ok |-> FALSE, io_error |-> FALSE, store |-> fst, files |-> dir]
        ELSE [ok |-> TRUE, io_error |-> TRUE,
              store |-> [fst EXCEPT !.mem_storage = r.mem], files |-> dir]

\* FileStorage::apply_snapshot: [ok, store, files]; writes the file
\* "snapshot_<index>", then MemStorage::apply_snapshot
FileStorage_apply_snapshot(fst, dir, snap) ==
    LET r == MemStorage_apply_snapshot(fst.mem_storage, snap)
    IN  [ok |-> r.ok,
         store |-> [fst EXCEPT !.mem_storage = r.mem],
         files |-> [dir EXCEPT !.snapshot_files = MapInsert(@, snap.index, snap)]]

set_conf_state(fst, conf_state) ==
    [fst EXCEPT !.mem_storage.conf_state = conf_state]

set_hardstate(fst, hs) == [fst EXCEPT !.mem_storage.hard_state = hs]

set_commit(fst, commit) == [fst EXCEPT !.mem_storage.hard_state.commit = commit]

\* Segment::clear: deletes the file of the segment
Segment_clear(segment_files, s) == MapRemove(segment_files, s)

\* save_snapshot, the loop that clears the segments to remove
RECURSIVE ClearSegments(_, _)
ClearSegments(segment_files, to_remove) ==
    IF to_remove = {} THEN segment_files
    ELSE LET s == SetMin(to_remove)
         IN  ClearSegments(Segment_clear(segment_files, s), to_remove \ {s})

\* the steps of save_snapshot: writing snapshot.tmp, removing the old
\* snapshot, renaming snapshot.tmp, compacting and deleting segments
SaveSteps == 1..4

\* FileStorage::save_snapshot run through its first `steps` steps:
\* [ok, store, files]
FileStorage_save_snapshot(fst, dir, biz_data, applied, steps) ==
    LET m == fst.mem_storage
        snap == [FileStorage_snapshot(m, applied) EXCEPT !.data = biz_data]
        f1 == [dir EXCEPT !.snapshot_tmp = Some(snap)]
        f2 == IF steps >= 2 THEN [f1 EXCEPT !.snapshot = None] ELSE f1
        f3 == IF steps >= 3
              THEN [f2 EXCEPT !.snapshot = f2.snapshot_tmp, !.snapshot_tmp = None]
              ELSE f2
        c == MemStorage_compact(m, snap.index)
        to_remove == {s \in DOMAIN fst.segments :
                         fst.segments[s].end_index <= snap.index}
    IN  IF steps < 4 THEN [ok |-> TRUE, store |-> fst, files |-> f3]
        ELSE [ok |-> c.ok,
              store |-> [mem_storage |-> c.mem,
                         segments |-> [s \in (DOMAIN fst.segments) \ to_remove
                                         |-> fst.segments[s]]],
              files |-> [f3 EXCEPT !.segment_files = ClearSegments(@, to_remove)]]

\* FileStorage::commit
FileStorage_commit(fst) == fst.mem_storage.hard_state.commit

(***************************************************************************)
(* The Raft node (raft/node.rs) around the RawNode of the raft library.    *)
(* The operators below transform a record w of the state of the process:   *)
(*   raft_group          the RawNode: [id, state, term, vote, committed,   *)
(*                       applied, persisted, unstable, lead_transferee,    *)
(*                       voters, pending_conf_index]                       *)
(*   store, files        the FileStorage and its directory                 *)
(*   state_machine       the StateMatch                                    *)
(*   proposed            the queue of proposals in flight                  *)
(*   last_index_snapshot the local of run_background_tasks                 *)
(*   status              "up", "panicked" or "down"                        *)
(*   completion          the oneshot channel of every request              *)
(*   stamped, fed        history: the (index, term) of the entry appended  *)
(*                       for a request; the entries given to apply         *)
(***************************************************************************)
\* RawNode::new over a store, with Config.applied: [ok, raft_group]
RawNode_new(fst, id, applied) ==
    LET m == fst.mem_storage
        hs == m.hard_state
        base == first_index(m) - 1
        loaded == hs # HardState(0, 0, 0)
        committed == IF loaded THEN hs.commit ELSE base
    IN  [ok |-> /\ loaded => (hs.commit >= base /\ hs.commit <= last_index(m))
                /\ applied > 0 => (applied <= committed /\ applied >= base),
         raft_group |->
            [id |-> id, state |-> "Follower", term |-> hs.term, vote |-> hs.vote,
             committed |-> committed,
             applied |-> IF applied > 0 THEN applied ELSE base,
             persisted |-> last_index(m), unstable |-> <<>>,
             lead_transferee |-> FALSE, voters |-> m.conf_state,
             pending_conf_index |-> 0]]

\* Node::create_raft_leader (bootstrap) / Node::create_raft_follower over
\* the directory, with the fresh StateMatch of Server::builder
create_raft_node(dir, id, bootstrap, chans, stamps, given) ==
    LET st == FileStorage_new(dir, bootstrap)
        rn == RawNode_new(st.store, id, FileStorage_commit(st.store))
    IN  [raft_group |-> rn.raft_group, store |-> st.store, files |-> dir,
         state_machine |-> NewStateMatch, proposed |-> <<>>,
         last_index_snapshot |-> 0,
         status |-> IF st.ok /\ rn.ok THEN "up" ELSE "panicked",
         completion |-> chans, stamped |-> stamps, fed |-> given]

\* the log of the RawNode: the working set of the store under the entries
\* not yet persisted
LastIndex(w) ==
    IF w.raft_group.unstable # <<>>
    THEN w.raft_group.unstable[Len(w.raft_group.unstable)].index
    ELSE last_index(w.store.mem_storage)

LogTerm(w, i) ==
    LET u == w.raft_group.unstable
    IN  IF u # <<>> /\ i >= u[1].index
        THEN IF i <= u[Len(u)].index THEN u[i - u[1].index + 1].term ELSE 0
        ELSE mem_term(w.store.mem_storage, i)

\* the entries lo..hi of the working set
StableEntries(m, lo, hi) ==
    SelectSeq(m.entries, LAMBDA e : e.index >= lo /\ e.index <= hi)

\* Raft::become_leader: appends the empty entry of the new term
become_leader(w) ==
    [w EXCEPT !.raft_group.state = "Leader",
              !.raft_group.lead_transferee = FALSE,
              !.raft_group.pending_conf_index = LastIndex(w),
              !.raft_group.unstable =
                  Append(@, Entry(LastIndex(w) + 1, w.raft_group.term,
                                  "EntryNormal", <<>>))]

\* Raft::become_follower
become_follower(w, term) ==
    [w EXCEPT !.raft_group.state = "Follower",
              !.raft_group.vote = IF term # w.raft_group.term THEN 0 ELSE @,
              !.raft_group.term = term,
              !.raft_group.lead_transferee = FALSE]

\* Raft::campaign: alone in the configuration the node wins at once
campaign(w) ==
    LET w2 == [w EXCEPT !.raft_group.term = @ + 1,
                        !.raft_group.vote = w.raft_group.id,
                        !.raft_group.state = "Candidate"]
    IN  IF w.raft_group.voters = {w.raft_group.id} THEN become_leader(w2) ELSE w2

\* RawNode::tick; election tells that the election timeout elapsed with it
tick(w, election) ==
    IF ~election THEN w
    ELSE IF w.raft_group.state = "Leader"
    THEN [w EXCEPT !.raft_group.lead_transferee = FALSE]
    ELSE IF w.raft_group.id \in w.raft_group.voters THEN campaign(w)
    ELSE w

\* RawNode::propose / RawNode::propose_conf_change on a leader: dropped
\* during a leader transfer or when the leader left the configuration
RawNode_propose(w, entry_type, data) ==
    LET rg == w.raft_group
        idx == LastIndex(w) + 1
        pending == rg.pending_conf_index > rg.applied
    IN  IF rg.lead_transferee \/ rg.id \notin rg.voters THEN w
        ELSE IF entry_type = "EntryConfChange" /\ pending
        THEN [w EXCEPT !.raft_group.unstable =
                          Append(@, Entry(idx, rg.term, "EntryNormal", <<>>))]
        ELSE [w EXCEPT !.raft_group.unstable =
                          Append(@, Entry(idx, rg.term, entry_type, data)),
                       !.raft_group.pending_conf_index =
                          IF entry_type = "EntryConfChange" THEN idx ELSE @]

\* a Proposal: [req, normal, conf_change, proposed]
Proposal_normal(req, data) ==
    [req |-> req, normal |-> Some(data), conf_change |-> None, proposed |-> 0]

Proposal_conf_change(req, cc) ==
    [req |-> req, normal |-> None, conf_change |-> Some(cc), proposed |-> 0]

\* Node::propose that queues the proposal whatever the algorithm did
propose_QueueAlways(w, proposal) ==
    LET li == LastIndex(w) + 1
        w2 == IF proposal.normal # None
              THEN RawNode_propose(w, "EntryNormal", proposal.normal)
              ELSE RawNode_propose(w, "EntryConfChange", proposal.conf_change)
    IN  [w2 EXCEPT !.proposed = Append(@, [proposal EXCEPT !.proposed = li]),
                   !.stamped[proposal.req] =
                      Some([index |-> li, term |-> w.raft_group.term])]

\* Node::propose
propose(w, proposal) ==
    IF w.raft_group.state # "Leader"
    THEN \* return: the proposal and its sender are dropped
         [w EXCEPT !.completion[proposal.req] = "closed"]
    ELSE LET li == LastIndex(w) + 1
             w2 == IF proposal.normal # None
                   THEN RawNode_propose(w, "EntryNormal", proposal.normal)
                   ELSE RawNode_propose(w, "EntryConfChange", proposal.conf_change)
             new_last_index == LastIndex(w2) + 1
         IN  IF new_last_index = li
             THEN [w2 EXCEPT !.completion[proposal.req] = "false"]
             ELSE [w2 EXCEPT !.proposed =
                                Append(@, [proposal EXCEPT !.proposed = li]),
                             !.stamped[proposal.req] =
                                Some([index |-> li, term |-> w.raft_group.term])]

\* the drain of the proposals channel in run_background_tasks
RECURSIVE propose_all(_, _)
propose_all(w, ps) ==
    IF ps = <<>> THEN w ELSE propose_all(propose(w, Head(ps)), Tail(ps))

\* Node::notice_proposed: [proposed, completion]
RECURSIVE notice_proposed_All(_, _, _)
notice_proposed_All(last, queue, chans) ==
    IF queue = <<>> THEN [proposed |-> <<>>, completion |-> chans]
    ELSE notice_proposed_All(last, Tail(queue),
                             [chans EXCEPT ![Head(queue).req] = "true"])
RECURSIVE notice_proposed(_, _, _)
notice_proposed(last, queue, chans) ==
    IF queue = <<>> THEN [proposed |-> <<>>, completion |-> chans]
    ELSE IF Head(queue).proposed <= last
    THEN notice_proposed(last, Tail(queue),
                         [chans EXCEPT ![Head(queue).req] = "true"])
    ELSE LET r == notice_proposed(last, Tail(queue), chans)
         IN  [proposed |-> <<Head(queue)>> \o r.proposed,
              completion |-> r.completion]

\* committed entries that start at the applied index itself
committed_entries_FromApplied(w) ==
    StableEntries(w.store.mem_storage, w.raft_group.applied,
                  MinOf(w.raft_group.committed, w.raft_group.persisted))

\* Ready.committed_entries and LightReady.committed_entries: the entries
\* above applied that are committed and persisted
committed_entries(w) ==
    StableEntries(w.store.mem_storage, w.raft_group.applied + 1,
                  MinOf(w.raft_group.committed, w.raft_group.persisted))

\* on_ready, its end: st2 is what handle_committed_entries made of the
\* committed entries of the LightReady; notice_proposed, advance_apply
on_ready_notice(w, index1, st2) ==
    LET np == notice_proposed(MaxOf(index1, st2.last_index),
                              w.proposed, w.completion)
    IN  [w EXCEPT !.raft_group.applied =
                      MaxOf(@, MinOf(w.raft_group.committed,
                                     w.raft_group.persisted)),
                  !.raft_group.voters = st2.conf_state,
                  !.store = set_conf_state(@, st2.conf_state),
                  !.state_machine = st2.state_machine,
                  !.fed = st2.fed,
                  !.proposed = np.proposed,
                  !.completion = np.completion]

\* on_ready after advance: the committed entries of the LightReady
on_ready_light(w, index1, now) ==
    on_ready_notice(w, index1,
                    handle_committed_entries(w.state_machine, w.raft_group.voters,
                                             w.fed, committed_entries(w), now))

\* on_ready from persist_raft_state on: st1 is what handle_committed_entries
\* made of the committed entries of the Ready, ap what append_entries made
\* of the entries to persist
on_ready_advance(w, st1, ap, now) ==
    LET rg == w.raft_group
        \* persist_raft_state returns before set_hardstate on an Err
        store2 == IF ap.io_error THEN ap.store
                  ELSE set_hardstate(ap.store,
                                     HardState(rg.term, rg.vote, rg.committed))
        \* RawNode::advance: the entries are persisted; a leader alone in
        \* the configuration commits what it persisted
        persisted2 == IF rg.unstable # <<>>
                      THEN rg.unstable[Len(rg.unstable)].index ELSE rg.persisted
        committed2 ==
            IF /\ rg.state = "Leader"
               /\ st1.conf_state = {rg.id}
               /\ mem_term(store2.mem_storage, persisted2) = rg.term
            THEN MaxOf(rg.committed, persisted2) ELSE rg.committed
    IN  IF ~ap.ok
        THEN [w EXCEPT !.status = "panicked",
                       !.state_machine = st1.state_machine, !.fed = st1.fed]
        ELSE on_ready_light(
                [w EXCEPT !.raft_group.unstable = <<>>,
                          !.raft_group.persisted = persisted2,
                          !.raft_group.committed = committed2,
                          !.raft_group.applied =
                              MaxOf(@, MinOf(rg.committed, rg.persisted)),
                          !.raft_group.voters = st1.conf_state,
                          \* update_commit
                          !.store = set_commit(store2, committed2),
                          !.files = ap.files,
                          !.state_machine = st1.state_machine,
                          !.fed = st1.fed],
                st1.last_index, now)

\* on_ready after the committed entries of the Ready: persist_raft_state
on_ready_persist(w, st1, now) ==
    on_ready_advance(w, st1,
                     FileStorage_append_entries(
                         set_conf_state(w.store, st1.conf_state), w.files,
                         w.raft_group.unstable),
                     now)

\* Node::on_ready.  Without anything ready its steps change nothing.
on_ready(w, now) ==
    IF w.status # "up" THEN w
    ELSE on_ready_persist(w,
                          handle_committed_entries(w.state_machine,
                                                   w.raft_group.voters, w.fed,
                                                   committed_entries(w), now),
                          now)

\* Node::on_ready in a turn where append_entries returns Err
on_ready_io_error(w, now) ==
    LET st1 == handle_committed_entries(w.state_machine, w.raft_group.voters,
                                        w.fed, committed_entries(w), now)
    IN  on_ready_advance(w, st1,
                         FileStorage_append_entries_io_error(
                             set_conf_state(w.store, st1.conf_state), w.files,
                             w.raft_group.unstable),
                         now)

\* handle_save_snapshot once save_snapshot returned r
after_save_snapshot(w, r) ==
    [w EXCEPT !.store = r.store, !.files = r.files,
              !.status = IF r.ok THEN @ ELSE "panicked"]

\* Node::handle_save_snapshot, run through the first `steps` steps of
\* save_snapshot
handle_save_snapshot(w, steps) ==
    after_save_snapshot(w,
        FileStorage_save_snapshot(w.store, w.files, snapshot(w.state_machine, 0),
                                  w.raft_group.applied, steps))

\* run_background_tasks, the snapshot saved when SAVE_SNAPSHOT_INTERVAL
\* elapsed and something was applied since the last one
save_when_due(w, save_due) ==
    IF save_due /\ w.last_index_snapshot < w.raft_group.applied
    THEN [handle_save_snapshot(w, 4) EXCEPT
             !.last_index_snapshot = w.raft_group.applied]
    ELSE w

\* run_background_tasks after the select: tick when TICK_INTERVAL elapsed,
\* save the snapshot when due, then on_ready
loop_body(w, ticked, election, save_due, now) ==
    on_ready(save_when_due(IF ticked THEN tick(w, election) ELSE w, save_due), now)

(***************************************************************************)
(* Messages of the peers.  A message is [type, term, index, entries,       *)
(* commit].  Messages(w) are the messages the peers of a cluster that      *)
(* keeps the Raft guarantees can have sent to the node in state w:         *)
(*  - MsgAppendResponse: a quorum holds the log up to index, an entry of   *)
(*    the leader's term; with one peer the leader itself is in the quorum; *)
(*  - MsgRequestVoteResponse: the votes that make the candidate win;       *)
(*  - MsgTransferLeader: a peer asks for the leadership;                   *)
(*  - MsgAppend: the leader of a term not below the node's sends entries   *)
(*    after index; entries that replace entries of the node are of a later *)
(*    term and replace nothing committed, and such a leader was elected    *)
(*    without the node, by two other voters; the first entry of its term   *)
(*    is the empty entry of become_leader; it tells either of no new       *)
(*    commit or that all it sends is committed.                            *)
(***************************************************************************)
Message(type, term, index, entries, commit) ==
    [type |-> type, term |-> term, index |-> index, entries |-> entries,
     commit |-> commit]

\* the command of a client of another node
ForeignCmd == MatchCmd("CreateSymbol", None, Some(NewSymbol("s2", 1, MaxPrice, 1, MaxQty)))

Messages(w) ==
    LET rg == w.raft_group
        last == LastIndex(w)
        n == Cardinality(rg.voters)
        acks == {Message("MsgAppendResponse", rg.term, i, <<>>, 0) :
                   i \in {j \in (rg.committed + 1)..last :
                            /\ rg.state = "Leader" /\ n >= 2
                            /\ LogTerm(w, j) = rg.term
                            /\ (n = 2 => j <= rg.persisted)}}
        votes == IF rg.state = "Candidate"
                 THEN {Message("MsgRequestVoteResponse", rg.term, 0, <<>>, 0)}
                 ELSE {}
        transfers == IF rg.state = "Leader" /\ n >= 2 /\ ~rg.lead_transferee
                     THEN {Message("MsgTransferLeader", 0, 0, <<>>, 0)}
                     ELSE {}
        appends ==
            {Message("MsgAppend", t, k - 1, es, c) :
               t \in {u \in rg.term..MaxTerm :
                        n >= 2 /\ (u > rg.term \/ rg.state # "Leader")},
               k \in (rg.committed + 1)..(last + 1),
               es \in {<<>>} \cup {<<Entry(0, 0, "EntryNormal", d)>> :
                                      d \in {None, Some(ForeignCmd)}},
               c \in rg.committed..MaxIndex}
        legal(m) ==
            LET k == m.index + 1
            IN  /\ m.index + Len(m.entries) <= MaxIndex
                /\ m.commit \in {rg.committed, m.index + Len(m.entries)}
                /\ (m.entries # <<>> /\ LogTerm(w, m.index) < m.term)
                      => m.entries[1].data = None
                /\ k <= last => /\ m.entries # <<>>
                                /\ n >= 3
                                /\ LogTerm(w, k) < m.term
    IN  acks \cup votes \cup transfers \cup
        {[m EXCEPT !.entries = [i \in 1..Len(m.entries) |->
                                   [m.entries[i] EXCEPT !.index = m.index + i,
                                                        !.term = m.term]]] :
           m \in {x \in appends : legal(x)}}

\* RawNode::step
step(w, m) ==
    CASE m.type = "MsgAppendResponse" ->
            [w EXCEPT !.raft_group.committed = MaxOf(@, m.index)]
      [] m.type = "MsgRequestVoteResponse" -> become_leader(w)
      [] m.type = "MsgTransferLeader" ->
            [w EXCEPT !.raft_group.lead_transferee = TRUE]
      [] m.type = "MsgAppend" ->
            LET f == become_follower(w, m.term)
                k == m.index + 1
                u == f.raft_group.unstable
            IN  IF m.entries = <<>>
                THEN [f EXCEPT !.raft_group.committed = MaxOf(@, m.commit)]
                ELSE [f EXCEPT
                        !.raft_group.unstable =
                            SelectSeq(u, LAMBDA e : e.index < k) \o m.entries,
                        !.raft_group.persisted = MinOf(@, k - 1),
                        !.raft_group.committed = MaxOf(@, m.commit)]

\* the requests whose entry the message replaces
Replaced(w, m) ==
    {r \in DOMAIN w.stamped :
        /\ w.stamped[r] # None
        /\ m.type = "MsgAppend" /\ m.entries # <<>>
        /\ w.stamped[r][1].index > m.index
        /\ LogTerm(w, w.stamped[r][1].index) = w.stamped[r][1].term}

(***************************************************************************)
(* The gRPC handlers (match_service.rs) and the task that adds the         *)
(* followers (server.rs, add_all_followers).                               *)
(***************************************************************************)
\* capacity of the proposals channel
ProposalChannelSize == 1000

Kinds == {"place_order", "place_order_none", "create_symbol"}

\* the CreateSymbolRequest the clients send
CreateSymbolRequest ==
    [symbol |-> "s1", min_quantity |-> 1, max_quantity |-> MaxQty,
     min_amount |-> 1, max_amount |-> MaxQty]

\* create_symbol: the Symbol the handler builds from the request
create_symbol(request) ==
    NewSymbol(request.symbol, request.min_quantity, request.max_quantity,
              request.min_amount, request.max_amount)

\* the command a handler serializes for request r
HandlerCmd(kind, r, now) ==
    IF kind = "create_symbol"
    THEN MatchCmd("CreateSymbol", None, Some(create_symbol(CreateSymbolRequest)))
    ELSE MatchCmd("PlaceOrder",
                  Some(NewOrder(r, "s1", "Limit", "Buy", 1, 1, now)), None)

\* what the handler returns for the outcome of rx.await
HandlerReply(outcome) == IF outcome = "closed" THEN "error" ELSE "ok"

(***************************************************************************)
(* One matcher driven by place and cancel operations.  All operations of a *)
(* run fall into the same wall-clock second.                               *)
(***************************************************************************)
NodeIdle ==
    /\ raft_group = 0 /\ store = 0 /\ files = 0 /\ state_machine = 0
    /\ proposed = <<>> /\ last_index_snapshot = 0 /\ status = "down"
    /\ proposals = <<>> /\ completion = <<>> /\ client = <<>>
    /\ node_list = {} /\ init_task = 0 /\ stamped = <<>> /\ fed = <<>>
    /\ lost = {} /\ applied_states = <<>> /\ saved = <<>> /\ crash_info = <<>>
    /\ just_restarted = FALSE /\ restarts = 0

\* no segment is open
SegmentIdle == seg = 0 /\ seg_file = 0 /\ seg_hist = 0

\* nothing is sent to the peer and no handler runs
TransportIdle ==
    /\ peers = <<>> /\ net = 0
    /\ server_mutex = 0 /\ handlers = <<>> /\ chan = 0

\* no operation yet
NoOp == [op |-> "none", order |-> None, id |-> 0, removed |-> None]

InitMatcher ==
    /\ book = NewBook
    /\ trades = <<>>
    /\ crossings = <<>>
    /\ placedQty = 0
    /\ tradedQty = 0
    /\ cancelledQty = 0
    /\ nops = 0
    /\ last_op = NoOp
    /\ clock = 0
    /\ replicas = <<>>
    /\ log = <<>>
    /\ NodeIdle
    /\ SegmentIdle
    /\ TransportIdle

Place ==
    /\ nops < MaxOrders
    /\ \E id \in OrderIds, otype \in OrderTypes, side \in OrderSides,
          price \in Prices, quantity \in Qtys :
          LET order == NewOrder(id, "s", otype, side, price, quantity, clock)
              r == place_order(book, order, clock)
          IN  /\ book' = r.book
              /\ trades' = r.trades
              /\ crossings' = r.crossings
              /\ placedQty' = placedQty + quantity
              /\ tradedQty' = tradedQty + SeqSum([i \in 1..Len(r.trades) |->
                                                    r.trades[i].quantity])
              /\ last_op' = [op |-> "place", order |-> Some(order), id |-> id,
                             removed |-> None]
    /\ nops' = nops + 1
    /\ UNCHANGED <<cancelledQty, clock>>
    /\ UNCHANGED <<replicaVars, nodeVars, segmentVars, transportVars>>

Cancel ==
    /\ nops < MaxOrders
    /\ \E id \in OrderIds :
          LET r == cancel_order(book, id)
          IN  /\ book' = r.book
              /\ cancelledQty' = cancelledQty + (RestingQty(book) - RestingQty(r.book))
              /\ last_op' = [op |-> "cancel", order |-> None, id |-> id,
                             removed |-> r.removed]
    /\ nops' = nops + 1
    /\ UNCHANGED <<trades, crossings, placedQty, tradedQty, clock>>
    /\ UNCHANGED <<replicaVars, nodeVars, segmentVars, transportVars>>

NextMatcher == Place \/ Cancel

SpecMatcher == InitMatcher /\ [][NextMatcher]_vars

(***************************************************************************)
(* Claims about the matcher.                                               *)
(***************************************************************************)

\* C9 (as stated): after place operations only, the remaining quantity
\* resting in bids and asks plus the quantity of all trades emitted equals
\* the quantity of all input orders.
C9_RestingPlusTradesIsInput ==
    cancelledQty = 0 => RestingQty(book) + tradedQty = placedQty

\* C9 (amended): every trade fills its taker and its maker by the trade
\* quantity, so after place operations only, the remaining quantity resting
\* in bids and asks plus TWICE the quantity of all trades emitted equals the
\* quantity of all input orders.
C9_RestingPlusTwiceTradesIsInput ==
    cancelledQty = 0 => RestingQty(book) + 2 * tradedQty = placedQty

C9_Witness ==
    /\ cancelledQty = 0
    /\ tradedQty > 0
    /\ RestingQty(book) > 0
    /\ nops = MaxOrders

\* C10: every trade of a place has quantity min(taker remaining, maker
\* remaining) > 0, the resting price of the maker it was matched against,
\* and the trades are returned in the order the crossings occurred.
C10_TradeQuantityPriceOrder ==
    /\ Len(trades) = Len(crossings)
    /\ \A i \in 1..Len(trades) :
          /\ trades[i].quantity =
                MinOf(crossings[i].taker_remaining, crossings[i].maker_remaining)
          /\ trades[i].quantity > 0
          /\ trades[i].price = crossings[i].maker_price
          /\ crossings[i].nth = i
          /\ crossings[i].maker_id \in
                {trades[i].buyer_order_id, trades[i].seller_order_id}

\* a place that crossed two makers resting at two different prices
C10_Witness ==
    /\ Len(trades) = 2
    /\ trades[1].price # trades[2].price
    /\ crossings[1].maker_id # crossings[2].maker_id
    /\ crossings[2].taker_remaining < crossings[2].maker_remaining

\* the orders resting in the ladders of b, bids then asks
Fifos(b) == LadderOrders(b.bids) \o LadderOrders(b.asks)

\* an order with this id rests in a ladder of b
Rests(b, id) == \E i \in 1..Len(Fifos(b)) : Fifos(b)[i].id = id

\* the ladder an order of this side rests in; the ladder it is matched against
OwnLadder(b, side) == IF side = "Buy" THEN b.bids ELSE b.asks
OpposingLadder(b, side) == IF side = "Buy" THEN b.asks ELSE b.bids

\* C11: after any sequence of place and cancel operations, the id index and
\* the ladders are in one-to-one correspondence: every id of orders_by_id has
\* exactly one entry in the ladders, in the fifo of its side at its price;
\* every fifo entry's id is in orders_by_id; and the size of orders_by_id is
\* the sum of the fifo sizes.
C11_IdIndexMatchesLadders ==
    /\ \A id \in DOMAIN book.orders_by_id :
          LET o == book.orders_by_id[id]
              own == OwnLadder(book, o.side)
          IN  /\ o.price \in DOMAIN own
              /\ \E i \in 1..Len(own[o.price]) : own[o.price][i].id = id
              /\ Cardinality({i \in 1..Len(Fifos(book)) :
                                 Fifos(book)[i].id = id}) = 1
    /\ \A i \in 1..Len(Fifos(book)) : Fifos(book)[i].id \in DOMAIN book.orders_by_id
    /\ Cardinality(DOMAIN book.orders_by_id) = Len(Fifos(book))

\* C12: after any sequence of place and cancel operations, no price level
\* with an empty fifo is present in bids or asks.
C12_NoEmptyLevel ==
    /\ \A p \in DOMAIN book.bids : book.bids[p] # <<>>
    /\ \A p \in DOMAIN book.asks : book.asks[p] # <<>>

\* a place filled the last maker of a level and a later cancel took the last
\* order out of another level: both levels are gone
C12_Witness ==
    /\ crossings # <<>>
    /\ crossings[1].maker_price \notin
          DOMAIN OpposingLadder(book, crossings[1].taker.side)
    /\ last_op.op = "cancel"
    /\ last_op.removed # None
    /\ last_op.removed[1].price \notin
          DOMAIN OwnLadder(book, last_op.removed[1].side)
    /\ last_op.removed[1].side = crossings[1].taker.side

\* the ids of the orders of a fifo, head first
FifoIds(fifo) == [i \in 1..Len(fifo) |-> fifo[i].id]

\* the fifo of a level, empty when the level is absent
FifoAt(ladder, p) == IF p \in DOMAIN ladder THEN ladder[p] ELSE <<>>

\* new is old without some orders at its head, then at most the order placed
KeepsArrivalOrder(old, new, placed) ==
    \E k \in 0..Len(old) :
        \/ FifoIds(new) = FifoIds(SubSeq(old, k + 1, Len(old)))
        \/ FifoIds(new) = Append(FifoIds(SubSeq(old, k + 1, Len(old))), placed)

\* C13: price-time priority.  Every trade of an incoming order is made
\* against the head of the fifo of the best opposing level at that moment
\* (lowest ask for a buy, highest bid for a sell); a maker that is filled in
\* part stays at the head of its fifo; and a place leaves the orders of every
\* fifo in their arrival order, taking orders out at the head only and adding
\* the placed order at the tail only.
C13_PriceTimePriority ==
    /\ [](/\ \A i \in 1..Len(crossings) :
                LET c == crossings[i]
                IN  /\ c.maker_price \in DOMAIN c.opposing
                    /\ c.opposing[c.maker_price] # <<>>
                    /\ c.opposing[c.maker_price][1].id = c.maker_id
                    /\ trades[i].price = c.maker_price
                    /\ \A p \in DOMAIN c.opposing :
                          c.opposing[p] # <<>> =>
                             IF c.taker.side = "Buy" THEN c.maker_price <= p
                             ELSE c.maker_price >= p
          /\ (last_op.op = "place" /\ crossings # <<>>) =>
                LET c == crossings[Len(crossings)]
                    opp == OpposingLadder(book, c.taker.side)
                IN  c.maker_remaining > c.taker_remaining =>
                       /\ c.maker_price \in DOMAIN opp
                       /\ opp[c.maker_price][1].id = c.maker_id
                       /\ remaining_quantity(opp[c.maker_price][1]) =
                             c.maker_remaining - c.taker_remaining)
    /\ [][last_op'.op = "place" /\ nops' # nops =>
            \A p \in Prices :
               /\ KeepsArrivalOrder(FifoAt(book.bids, p), FifoAt(book'.bids, p),
                                    last_op'.id)
               /\ KeepsArrivalOrder(FifoAt(book.asks, p), FifoAt(book'.asks, p),
                                    last_op'.id)]_vars

\* a sell that filled the first of two bids resting at one price and filled
\* the second in part
C13_Witness ==
    /\ last_op.op = "place"
    /\ Len(crossings) = 2
    /\ crossings[1].maker_price = crossings[2].maker_price
    /\ crossings[1].maker_id # crossings[2].maker_id
    /\ crossings[2].maker_remaining > crossings[2].taker_remaining
    /\ Len(crossings[1].opposing[crossings[1].maker_price]) = 2

\* C14: a limit order only trades at prices that cross its limit: every
\* trade of a limit buy has price <= the order's price and every trade of a
\* limit sell has price >= the order's price.
C14_LimitTradesCrossLimit ==
    \A i \in 1..Len(crossings) :
        crossings[i].taker.order_type = "Limit" =>
            IF crossings[i].taker.side = "Buy"
            THEN trades[i].price <= crossings[i].taker.price
            ELSE trades[i].price >= crossings[i].taker.price

\* C15: the unfilled remainder of a market order is discarded: no market
\* order is ever present in bids, asks or orders_by_id.
C15_NoMarketOrderRests ==
    /\ \A i \in 1..Len(Fifos(book)) : Fifos(book)[i].order_type # "Market"
    /\ \A id \in DOMAIN book.orders_by_id :
          book.orders_by_id[id].order_type # "Market"

\* C16: cancel(order_id) returns the order and takes it out of its fifo and
\* of orders_by_id exactly when an order with that id rests in the book; for
\* any other id (never rested, already cancelled, or filled by matching) it
\* returns none and leaves the book unchanged.
C16_CancelExactlyWhenResting ==
    [][last_op'.op = "cancel" /\ nops' # nops =>
          IF Rests(book, last_op'.id)
          THEN /\ last_op'.removed # None
               /\ last_op'.removed[1].id = last_op'.id
               /\ ~Rests(book', last_op'.id)
               /\ last_op'.id \notin DOMAIN book'.orders_by_id
          ELSE /\ last_op'.removed = None
               /\ book' = book]_vars

(***************************************************************************)
(* Two nodes applying the committed log of one cluster.  Node 1 is started *)
(* as the bootstrap leader: its store begins with the snapshot at index 1  *)
(* and its log at index 2.  Node 2 is started as a follower with an empty  *)
(* store.  Each node applies the committed entries in order                *)
(* (handle_committed_entries); the leader compacts its log when it saves a *)
(* snapshot (save_snapshot); a follower whose next entry the leader can no *)
(* longer send is sent the leader's snapshot (FileStorage::snapshot) and   *)
(* installs it (handle_snapshot).  Every node has its own wall clock and   *)
(* its own hasher keys.                                                    *)
(***************************************************************************)
Leader == 1
Follower == 2

\* the payloads committed in this cluster
ReplicaSymbol(name) == NewSymbol(name, 1, MaxPrice, 1, MaxQty)

ReplicaCmds ==
    {MatchCmd("CreateSymbol", None, Some(ReplicaSymbol(n))) : n \in {"s1", "s2"}}
    \cup {MatchCmd("RemoveSymbol", None, Some(ReplicaSymbol("s1")))}
    \cup {MatchCmd("PlaceOrder",
                   Some(NewOrder(id, "s1", "Limit", side, 1, q, 0)), None) :
            id \in {1, 2}, side \in OrderSides, q \in Qtys}
    \cup {MatchCmd("CancelOrder",
                   Some(NewOrder(id, "s1", "Limit", "Buy", 1, 1, 0)), None) :
            id \in {1, 2}}

NewReplica(applied, first, now, seed) ==
    [state_machine |-> NewStateMatch, applied |-> applied,
     first_index |-> first, clock |-> now, hash_seed |-> seed,
     fed |-> <<>>]

InitReplicas ==
    /\ \E skew \in 0..MaxSkew, seed \in HashSeeds :
          replicas = [r \in {Leader, Follower} |->
                        IF r = Leader THEN NewReplica(1, 2, 0, 0)
                        ELSE NewReplica(0, 1, skew, seed)]
    /\ log = <<>>
    /\ book = NewBook /\ trades = <<>> /\ crossings = <<>>
    /\ placedQty = 0 /\ tradedQty = 0 /\ cancelledQty = 0 /\ nops = 0
    /\ last_op = NoOp
    /\ clock = 0
    /\ NodeIdle
    /\ SegmentIdle
    /\ TransportIdle

\* the cluster commits one more entry: a command, or an entry without data
CommitEntry ==
    /\ Len(log) < MaxEntries
    /\ \E data \in {None} \cup {Some(c) : c \in ReplicaCmds} :
          log' = Append(log, Entry(Len(log) + 2, 1, "EntryNormal", data))
    /\ UNCHANGED <<replicas, matcherVars, nodeVars, segmentVars, transportVars>>

\* the leader can send entry f + 1 to a follower whose log ends at f: it
\* still holds the term of f and the entries after it
CanAppend(f) ==
    \/ f >= replicas[Leader].first_index
    \/ f = 1 /\ replicas[Leader].first_index = 2

\* node r applies its next committed entry
ApplyNext(r) ==
    /\ replicas[r].applied >= 1
    /\ replicas[r].applied < Len(log) + 1
    /\ r = Follower => CanAppend(replicas[r].applied)
    /\ LET entry == log[replicas[r].applied]
           st == handle_committed_entries(replicas[r].state_machine, {},
                                          replicas[r].fed, <<entry>>,
                                          replicas[r].clock)
       IN  replicas' = [replicas EXCEPT ![r].state_machine = st.state_machine,
                                        ![r].fed = st.fed,
                                        ![r].applied = entry.index]
    /\ UNCHANGED <<log, matcherVars, nodeVars, segmentVars, transportVars>>

\* the leader saves a snapshot at its applied index and compacts its log
CompactLeader ==
    /\ replicas[Leader].applied > replicas[Leader].first_index
    /\ replicas' = [replicas EXCEPT ![Leader].first_index = replicas[Leader].applied]
    /\ UNCHANGED <<log, matcherVars, nodeVars, segmentVars, transportVars>>

\* the leader sends its snapshot to the follower, which installs it
InstallSnapshot ==
    /\ ~CanAppend(replicas[Follower].applied)
    /\ LET snap == MemStorage_snapshot(replicas[Leader].applied, 1, {Leader, Follower}, 0)
       IN  /\ snap.index > replicas[Follower].applied
           /\ replicas' = [replicas EXCEPT
                  ![Follower].state_machine = handle_snapshot(@, snap),
                  ![Follower].applied = snap.index]
    /\ UNCHANGED <<log, matcherVars, nodeVars, segmentVars, transportVars>>

NextReplicas ==
    \/ CommitEntry
    \/ \E r \in {Leader, Follower} : ApplyNext(r)
    \/ CompactLeader
    \/ InstallSnapshot

SpecReplicas == InitReplicas /\ [][NextReplicas]_vars

\* C5: two nodes whose state machines have reached the same applied index
\* hold the same symbols and order books (wall-clock stamps of the orders
\* left aside), also when the follower caught up by installing a snapshot.
C5_SameAppliedSameState ==
    replicas[Leader].applied = replicas[Follower].applied
        => CoreState(replicas[Leader].state_machine)
            = CoreState(replicas[Follower].state_machine)

\* C6: two state machines that were given the same entries in the same
\* order produce byte-identical snapshots.
C6_SameEntriesSameSnapshot ==
    replicas[Leader].fed = replicas[Follower].fed
        => snapshot(replicas[Leader].state_machine, replicas[Leader].hash_seed)
            = snapshot(replicas[Follower].state_machine, replicas[Follower].hash_seed)

(***************************************************************************)
(* The running node: one process (node 1, started as the bootstrap         *)
(* leader), its directory, the handlers that serve its clients and the     *)
(* task that adds the followers.                                           *)
(***************************************************************************)
ClientReqs == 1..RegainRequests

\* the request of the task that adds follower id
AddReq(id) == RegainRequests + id - 1

ReqIds == 1..(RegainRequests + InitNodes - 1)

World ==
    [raft_group |-> raft_group, store |-> store, files |-> files,
     state_machine |-> state_machine, proposed |-> proposed,
     last_index_snapshot |-> last_index_snapshot, status |-> status,
     completion |-> completion, stamped |-> stamped, fed |-> fed]

\* the senders of a process that is gone are dropped
CloseAll(c) == [r \in DOMAIN c |-> IF c[r] = "pending" THEN "closed" ELSE c[r]]

\* the state of the process after an operation that left it as w
Becomes(w) ==
    /\ raft_group' = w.raft_group
    /\ store' = w.store
    /\ files' = w.files
    /\ state_machine' = w.state_machine
    /\ proposed' = IF w.status = "up" THEN w.proposed ELSE <<>>
    /\ last_index_snapshot' = w.last_index_snapshot
    /\ status' = w.status
    /\ completion' = IF w.status = "up" THEN w.completion ELSE CloseAll(w.completion)
    /\ stamped' = w.stamped
    /\ fed' = w.fed
    /\ applied_states' =
          IF w.status = "up" /\ w.raft_group.applied \notin DOMAIN applied_states
          THEN MapInsert(applied_states, w.raft_group.applied,
                         CoreState(w.state_machine))
          ELSE applied_states

\* the process of node id, started as the bootstrap leader over an empty
\* directory
InitNodeAs(id, nodes) ==
    \E w \in {create_raft_node(NewFiles, id, TRUE,
                                [r \in ReqIds |-> "unsent"],
                                [r \in ReqIds |-> None], <<>>)} :
        /\ raft_group = w.raft_group
        /\ store = w.store
        /\ files = w.files
        /\ state_machine = w.state_machine
        /\ proposed = w.proposed
        /\ last_index_snapshot = w.last_index_snapshot
        /\ status = w.status
        /\ completion = w.completion
        /\ stamped = w.stamped
        /\ fed = w.fed
        /\ applied_states = MapInsert(EmptyMap, w.raft_group.applied,
                                      CoreState(w.state_machine))
        /\ proposals = <<>>
        /\ client = [r \in ClientReqs |-> [kind |-> "none", reply |-> "none"]]
        /\ node_list = nodes
        /\ init_task = [next |-> 2, waiting |-> FALSE]
        /\ lost = {}
        /\ saved = None
        /\ crash_info = None
        /\ just_restarted = FALSE
        /\ restarts = 0
        /\ book = NewBook /\ trades = <<>> /\ crossings = <<>>
        /\ placedQty = 0 /\ tradedQty = 0 /\ cancelledQty = 0 /\ nops = 0
        /\ last_op = NoOp
        /\ clock = 0
        /\ replicas = <<>> /\ log = <<>>
        /\ SegmentIdle
        /\ TransportIdle

InitNode(nodes) == InitNodeAs(1, nodes)

idleInNode == <<matcherVars, replicaVars, node_list, segmentVars, transportVars>>
storeHistory == <<saved, crash_info, just_restarted, restarts>>

\* a handler takes request r of some kind: it sends the proposal and goes
\* on to await its completion; a place_order without an order answers OK
\* at once
Submit(r) ==
    /\ client[r].kind = "none"
    /\ r > 1 => client[r - 1].kind # "none"
    /\ \E kind \in Kinds :
          IF kind = "place_order_none"
          THEN /\ client' = [client EXCEPT ![r] = [kind |-> kind, reply |-> "ok"]]
               /\ UNCHANGED <<proposals, completion>>
          ELSE /\ client' = [client EXCEPT ![r] = [kind |-> kind, reply |-> "waiting"]]
               /\ IF status = "up"
                  THEN /\ Len(proposals) < ProposalChannelSize
                       /\ proposals' = Append(proposals,
                             Proposal_normal(r, HandlerCmd(kind, r, clock)))
                       /\ completion' = [completion EXCEPT ![r] = "pending"]
                  ELSE /\ proposals' = proposals
                       /\ completion' = [completion EXCEPT ![r] = "closed"]
    /\ UNCHANGED <<raft_group, store, files, state_machine, proposed,
                   last_index_snapshot, status, stamped, fed, applied_states,
                   init_task, lost, storeHistory, idleInNode>>

\* the handler of request r returns when its completion channel resolves
Reply(r) ==
    /\ client[r].reply = "waiting"
    /\ completion[r] \in {"true", "false", "closed"}
    /\ client' = [client EXCEPT ![r].reply = HandlerReply(completion[r])]
    /\ UNCHANGED <<raft_group, store, files, state_machine, proposed,
                   last_index_snapshot, status, completion, stamped, fed,
                   applied_states, proposals, init_task, lost, storeHistory,
                   idleInNode>>

\* add_all_followers sends the AddNode of the next follower
InitSend ==
    /\ ~init_task.waiting
    /\ init_task.next \in node_list
    /\ init_task' = [init_task EXCEPT !.waiting = TRUE]
    /\ IF status = "up"
       THEN /\ Len(proposals) < ProposalChannelSize
            /\ proposals' = Append(proposals,
                  Proposal_conf_change(AddReq(init_task.next),
                                       ConfChange("AddNode", init_task.next)))
            /\ completion' = [completion EXCEPT ![AddReq(init_task.next)] = "pending"]
       ELSE /\ proposals' = proposals
            /\ completion' = [completion EXCEPT ![AddReq(init_task.next)] = "closed"]
    /\ UNCHANGED <<raft_group, store, files, state_machine, proposed,
                   last_index_snapshot, status, stamped, fed, applied_states,
                   client, lost, storeHistory, idleInNode>>

\* add_all_followers gets the result and goes on to the next follower
InitAwait ==
    /\ init_task.waiting
    /\ completion[AddReq(init_task.next)] \in {"true", "false", "closed"}
    /\ init_task' = [next |-> init_task.next + 1, waiting |-> FALSE]
    /\ UNCHANGED <<raft_group, store, files, state_machine, proposed,
                   last_index_snapshot, status, completion, stamped, fed,
                   applied_states, proposals, client, lost, storeHistory,
                   idleInNode>>

\* what one turn of the loop leaves besides the process itself
AfterTurn(w, save_due) ==
    /\ saved' = IF save_due /\ w.status = "up"
                   /\ last_index_snapshot < raft_group.applied
                THEN Some([applied |-> raft_group.applied,
                           after |-> w.raft_group.applied])
                ELSE saved
    /\ crash_info' = None
    /\ just_restarted' = FALSE
    /\ UNCHANGED <<restarts, client, init_task, idleInNode>>

\* one turn of the loop of run_background_tasks that takes the proposals
IterProposalsUpTo(max_term) ==
    /\ status = "up"
    /\ proposals # <<>>
    /\ \E election \in BOOLEAN, save_due \in BOOLEAN :
          /\ election => raft_group.term < max_term
          /\ \E w \in {loop_body(propose_all(World, proposals),
                                  TRUE, election, save_due, clock)} :
                 Becomes(w) /\ AfterTurn(w, save_due)
    /\ proposals' = <<>>
    /\ lost' = lost

\* one turn of the loop that takes a message of a peer
IterMessageUpTo(max_term) ==
    /\ status = "up"
    /\ \E m \in Messages(World), election \in BOOLEAN, save_due \in BOOLEAN :
          /\ election => raft_group.term < max_term
          \* the entries of a leader restart the election timeout
          /\ election => m.type # "MsgAppend"
          /\ \E w \in {loop_body(step(World, m), TRUE, election, save_due, clock)} :
                 /\ Becomes(w) /\ AfterTurn(w, save_due)
                 /\ proposals' = IF w.status = "up" THEN proposals ELSE <<>>
          /\ lost' = lost \cup Replaced(World, m)

\* one turn of the loop that wakes from its sleep
IterSleepUpTo(max_term) ==
    /\ status = "up"
    /\ \E election \in BOOLEAN, save_due \in BOOLEAN :
          /\ election => raft_group.term < max_term
          /\ \E w \in {loop_body(World, TRUE, election, save_due, clock)} :
                 /\ Becomes(w) /\ AfterTurn(w, save_due)
                 /\ proposals' = IF w.status = "up" THEN proposals ELSE <<>>
    /\ lost' = lost

\* the turns of the node of a cluster whose terms stay within MaxTerm
IterProposals == IterProposalsUpTo(MaxTerm)
IterMessage == IterMessageUpTo(MaxTerm)
IterSleep == IterSleepUpTo(MaxTerm)

\* the process is killed: its handlers and their clients get no answer
Killed ==
    /\ status' = "down"
    /\ proposed' = <<>>
    /\ proposals' = <<>>
    /\ completion' = CloseAll(completion)
    /\ client' = [r \in DOMAIN client |->
                    IF client[r].reply = "waiting"
                    THEN [client[r] EXCEPT !.reply = "error"] ELSE client[r]]
    /\ restarts' = restarts + 1
    /\ just_restarted' = FALSE
    /\ UNCHANGED <<raft_group, store, state_machine, last_index_snapshot,
                   stamped, fed, applied_states, init_task, lost, saved,
                   idleInNode>>

\* the process is killed between two turns of the loop
Crash ==
    /\ status = "up"
    /\ restarts < MaxRestarts
    /\ Killed
    /\ crash_info' = None
    /\ files' = files

\* the process is killed inside save_snapshot, after its first, second or
\* third step
CrashInSave ==
    /\ status = "up"
    /\ restarts < MaxRestarts
    /\ last_index_snapshot < raft_group.applied
    /\ \E steps \in 1..3 :
          /\ files' = handle_save_snapshot(World, steps).files
          /\ crash_info' = Some([steps |-> steps, previous |-> files.snapshot])
    /\ Killed

\* the process is started again over its directory
Restart ==
    /\ status = "down"
    /\ Becomes(create_raft_node(files, raft_group.id, TRUE, completion,
                                 stamped, fed))
    /\ just_restarted' = TRUE
    /\ proposals' = <<>>
    /\ UNCHANGED <<client, init_task, lost, saved, crash_info, restarts,
                   idleInNode>>

\* the node among its peers
NextNode ==
    \/ \E r \in 1..MaxRequests : Submit(r)
    \/ \E r \in 1..MaxRequests : Reply(r)
    \/ InitSend
    \/ InitAwait
    \/ IterProposals
    \/ IterMessage
    \/ IterSleep

SpecNode == InitNode(1..MaxNodes) /\ [][NextNode]_vars

\* the node alone in its cluster, killed and started again
NextStore ==
    \/ \E r \in 1..MaxRequests : Submit(r)
    \/ \E r \in 1..MaxRequests : Reply(r)
    \/ IterProposals
    \/ IterSleep
    \/ Crash
    \/ CrashInSave
    \/ Restart

SpecStore == InitNode({1}) /\ [][NextStore]_vars

\* the same for every id the configuration file can give the node that is
\* started as the bootstrap leader
SpecBootstrap == (\E id \in 1..MaxNodes : InitNodeAs(id, {id})) /\ [][NextStore]_vars

\* the node in runs where its clients create symbols, no snapshot is saved,
\* no peer asks for the leadership and the loop stays alive
Calm ==
    /\ status = "up"
    /\ saved = None
    /\ last_index_snapshot = 0
    /\ ~raft_group.lead_transferee
    /\ \A r \in ClientReqs : client[r].kind \in {"none", "create_symbol"}

\* the node loses the leadership to a peer and wins it again
NextRegain ==
    \/ \E r \in ClientReqs : Submit(r) /\ Calm'
    \/ \E r \in ClientReqs : Reply(r) /\ Calm'
    \/ InitSend /\ Calm'
    \/ InitAwait /\ Calm'
    \/ IterProposalsUpTo(RegainTerm) /\ Calm'
    \/ IterMessageUpTo(RegainTerm) /\ Calm'
    \/ IterSleepUpTo(RegainTerm) /\ Calm'

SpecRegain == InitNode(1..MaxNodes) /\ [][NextRegain]_vars

\* the leader of a configuration of InitNodes nodes adds its followers; the
\* task wakes from its delay once the node has won its first election
NextInit ==
    \/ /\ init_task.next = 2 => raft_group.state = "Leader"
       /\ InitSend /\ Calm'
    \/ InitAwait /\ Calm'
    \/ IterProposals /\ Calm'
    \/ IterMessage /\ Calm'
    \/ IterSleep /\ Calm'

SpecInit == InitNode(1..InitNodes) /\ [][NextInit]_vars

(***************************************************************************)
(* One segment file: created at a start index, appended to, and opened     *)
(* again from its file (Segment::new on the existing file).                *)
(***************************************************************************)
Payloads == 1..MaxPayload

InitSegment ==
    /\ \E s \in 0..MaxStart :
          /\ seg = Segment_create(s).segment
          /\ seg_file = Segment_create(s).file
          /\ seg_hist = [start |-> s, appended |-> <<>>, reopened |-> FALSE,
                         truncates |-> 0, truncated |-> None]
    /\ book = NewBook /\ trades = <<>> /\ crossings = <<>>
    /\ placedQty = 0 /\ tradedQty = 0 /\ cancelledQty = 0 /\ nops = 0
    /\ last_op = NoOp
    /\ clock = 0
    /\ replicas = <<>> /\ log = <<>>
    /\ NodeIdle
    /\ TransportIdle

\* Segment::append of one or two payloads
SegmentAppend ==
    /\ \E entries \in {<<a>> : a \in Payloads} \cup
                      {<<a, b>> : a \in Payloads, b \in Payloads} :
          /\ Len(seg_hist.appended) + Len(entries) <= MaxAppended
          /\ \E r \in {Segment_append(seg, seg_file, entries)} :
                /\ seg' = r.segment
                /\ seg_file' = r.file
          /\ seg_hist' = [seg_hist EXCEPT !.appended = @ \o entries,
                                          !.truncated = None]
    /\ UNCHANGED <<matcherVars, replicaVars, nodeVars, transportVars>>

\* the file is opened again: Segment::new on the existing file
SegmentReopen ==
    /\ ~seg_hist.reopened
    /\ seg' = Segment_open(seg_file)
    /\ seg_hist' = [seg_hist EXCEPT !.reopened = TRUE, !.truncated = None]
    /\ UNCHANGED <<seg_file, matcherVars, replicaVars, nodeVars, transportVars>>

\* what read_entry returns for every index the segment claims to hold
SegmentReads(segment, file) ==
    [j \in segment.start_index..segment.end_index |->
        Segment_read_entry(segment, file, j)]

\* Segment::truncate at an index; the history keeps the index, the outcome
\* and what read_entry returned before the call
SegmentTruncate ==
    /\ seg_hist.truncates < MaxTruncates
    /\ \E index \in 0..(seg.end_index + 1) :
          \E r \in {Segment_truncate(seg, seg_file, index)} :
             /\ seg' = r.segment
             /\ seg_file' = r.file
             /\ seg_hist' = [seg_hist EXCEPT !.truncates = @ + 1, !.truncated =
                                Some([index |-> index, ok |-> r.ok,
                                      start_index |-> seg.start_index,
                                      end_index |-> seg.end_index,
                                      reads |-> SegmentReads(seg, seg_file)])]
    /\ UNCHANGED <<matcherVars, replicaVars, nodeVars, transportVars>>

NextSegment == SegmentAppend \/ SegmentReopen \/ SegmentTruncate

SpecSegment == InitSegment /\ [][NextSegment]_vars

\* C19: after appending n payloads to a freshly created segment with
\* start_index s, end_index is s+n-1, the segment is not empty,
\* read_entry(s+k) returns the (k+1)-th appended payload for every
\* 0 <= k < n, and read_entry of an index outside [start_index, end_index]
\* fails.
C19_AppendThenRead ==
    LET s == seg_hist.start
        n == Len(seg_hist.appended)
    IN  (~seg_hist.reopened /\ seg_hist.truncates = 0 /\ n >= 1) =>
            /\ seg.end_index = s + n - 1
            /\ ~Segment_is_empty(seg)
            /\ \A k \in 0..(n - 1) :
                  Segment_read_entry(seg, seg_file, s + k) =
                      Some(seg_hist.appended[k + 1])
            /\ Segment_read_entry(seg, seg_file, seg.start_index - 1) = None
            /\ Segment_read_entry(seg, seg_file, seg.end_index + 1) = None

\* C20: a freshly created segment with start_index s >= 1 holds zero entries:
\* get_start_index() is s, get_end_index() is s-1 and is_empty() is true.
C20_FreshSegmentIsEmpty ==
    (~seg_hist.reopened /\ seg_hist.truncates = 0
        /\ seg_hist.appended = <<>> /\ seg_hist.start >= 1) =>
        /\ seg.start_index = seg_hist.start
        /\ seg.end_index = seg_hist.start - 1
        /\ Segment_is_empty(seg)

\* C21: truncate(i) on a segment with start_index <= i <= end_index keeps
\* the entries up to and including i: afterwards end_index equals i,
\* read_entry(j) returns for every start_index <= j <= i the payload it
\* returned before the call, and read_entry(j) fails for every j > i.
C21_TruncateKeepsPrefix ==
    seg_hist.truncated # None =>
        LET t == seg_hist.truncated[1]
        IN  (t.start_index <= t.index /\ t.index <= t.end_index) =>
                /\ seg.end_index = t.index
                /\ \A j \in t.start_index..t.index :
                      t.reads[j] # None =>
                          Segment_read_entry(seg, seg_file, j) = t.reads[j]
                /\ \A j \in (t.index + 1)..(t.end_index + 1) :
                      Segment_read_entry(seg, seg_file, j) = None

(***************************************************************************)
(* The log store by itself: the FileStorage of a bootstrap node, given the *)
(* entries a Ready hands to append_entries, and built again from its       *)
(* directory after the process was killed.  The entries of a call start    *)
(* at an index of the working set or right after it; entries that replace  *)
(* others are of a later term, and terms never decrease along the log.     *)
(***************************************************************************)
\* the runs of one or two entries append_entries can be called with
AppendRuns(m) ==
    {[i \in 1..n |-> Entry(k + i - 1, t, "EntryNormal", d)] :
        k \in first_index(m)..(last_index(m) + 1), t \in 1..MaxTerm,
        n \in 1..2, d \in {None, Some(ForeignCmd)}}

LegalRun(m, run) ==
    /\ run[Len(run)].index <= MaxIndex
    /\ run[1].term >= mem_term(m, run[1].index - 1)
    /\ run[1].index <= last_index(m) => run[1].term > mem_term(m, run[1].index)

\* the number of records in the segment files of a directory: every index
\* up to MaxIndex falls into the segment of start index 0
RecordCount(dir) ==
    IF 0 \in DOMAIN dir.segment_files
    THEN Len(dir.segment_files[0].records) ELSE 0

InitFileStorage ==
    /\ files = NewFiles
    /\ store = FileStorage_new(NewFiles, TRUE).store
    /\ status = "up"
    /\ just_restarted = FALSE /\ restarts = 0
    /\ raft_group = 0 /\ state_machine = 0
    /\ proposed = <<>> /\ last_index_snapshot = 0
    /\ proposals = <<>> /\ completion = <<>> /\ client = <<>>
    /\ node_list = {} /\ init_task = 0 /\ stamped = <<>> /\ fed = <<>>
    /\ lost = {} /\ applied_states = <<>> /\ saved = <<>> /\ crash_info = <<>>
    /\ book = NewBook /\ trades = <<>> /\ crossings = <<>>
    /\ placedQty = 0 /\ tradedQty = 0 /\ cancelledQty = 0 /\ nops = 0
    /\ last_op = NoOp
    /\ clock = 0
    /\ replicas = <<>> /\ log = <<>>
    /\ SegmentIdle
    /\ TransportIdle

storageIdle == <<matcherVars, replicaVars, segmentVars, transportVars, raft_group,
                 state_machine, proposed, last_index_snapshot, proposals,
                 completion, client, node_list, init_task, stamped, fed, lost,
                 applied_states, saved, crash_info>>

\* FileStorage::append_entries with the entries of a Ready
StorageAppend ==
    /\ status = "up"
    /\ \E run \in AppendRuns(store.mem_storage) :
          /\ LegalRun(store.mem_storage, run)
          /\ RecordCount(files) + Len(run) <= MaxRecords
          /\ \E r \in {FileStorage_append_entries(store, files, run)} :
                /\ store' = r.store
                /\ files' = r.files
                /\ status' = IF r.ok THEN "up" ELSE "panicked"
    /\ just_restarted' = FALSE
    /\ UNCHANGED <<restarts, storageIdle>>

\* the process is killed and started again: FileStorage::new over the
\* directory
StorageRestart ==
    /\ status = "up"
    /\ restarts < MaxRestarts
    /\ \E r \in {FileStorage_new(files, TRUE)} :
          /\ store' = r.store
          /\ status' = IF r.ok THEN "up" ELSE "panicked"
    /\ restarts' = restarts + 1
    /\ just_restarted' = TRUE
    /\ UNCHANGED <<files, storageIdle>>

NextFileStorage == StorageAppend \/ StorageRestart

SpecFileStorage == InitFileStorage /\ [][NextFileStorage]_vars

\* the entries of a working set above index i
EntriesAbove(m, i) == SelectSeq(m.entries, LAMBDA e : e.index > i)

\* the indices of a sequence of entries go up one by one
Contiguous(entries) ==
    \A i \in 1..(Len(entries) - 1) : entries[i + 1].index = entries[i].index + 1

\* C22: after successful append_entries calls (also ones that overwrite a
\* conflicting suffix of the log) and a restart, the working set rebuilt at
\* start-up holds exactly the log of before the restart above the snapshot
\* index: contiguous indices, the same term and payload at each index, and
\* none of the overwritten entries.
C22_RestartRebuildsLog ==
    [][(status = "up" /\ restarts' = restarts + 1) =>
          /\ Contiguous(store'.mem_storage.entries)
          /\ store'.mem_storage.entries =
                EntriesAbove(store.mem_storage,
                             store'.mem_storage.snapshot_metadata.index)]_vars

(***************************************************************************)
(* Claims on the running node.                                             *)
(***************************************************************************)
\* the client requests that carry a command
Carrying == {r \in ClientReqs : client[r].kind \in {"place_order", "create_symbol"}}

\* request r got OK and the entry stamped for it was given to apply
Applied(r) ==
    /\ stamped[r] # None
    /\ \E i \in 1..Len(fed) :
          fed[i].index = stamped[r][1].index /\ fed[i].term = stamped[r][1].term

\* C1: a request that carries a command is answered OK only after its
\* command was committed and applied to the state machine of the node.
C1_OkOnlyAfterApplied ==
    \A r \in Carrying : client[r].reply = "ok" => Applied(r)

\* C2: the handler answers OK exactly when its completion channel delivered
\* true, and an error when it delivered false or was closed.
C2_OkOnlyOnSuccessWake ==
    \A r \in Carrying : client[r].reply = "ok" => completion[r] = "true"

C4_ReplacedNeverTrue ==
    \A r \in lost : completion[r] # "true"

(***************************************************************************)
(* Claims on the node killed and started again.                            *)
(***************************************************************************)
\* C7: started again after a completed save_snapshot, the node holds the
\* state the state machine had at the applied index it resumes from, and
\* that index is not below the one of the snapshot.
C7_RestartRestoresState ==
    (just_restarted /\ status = "up" /\ saved # None) =>
        /\ raft_group.applied >= saved[1].applied
        /\ raft_group.applied \in DOMAIN applied_states
        /\ CoreState(state_machine) = applied_states[raft_group.applied]

\* C8: a kill inside save_snapshot before the rename leaves the previous
\* snapshot file in place, and the node starts again from it.
C8_KillInSaveKeepsPrevious ==
    (crash_info # None /\ crash_info[1].steps < 3 /\ crash_info[1].previous # None) =>
        /\ files.snapshot = crash_info[1].previous
        /\ just_restarted =>
              /\ status = "up"
              /\ store.mem_storage.snapshot_metadata.index
                    = crash_info[1].previous[1].index


\* request r was accepted: Node::propose appended its entry and queued it
Accepted(r) == stamped[r] # None

\* the place in fed of the entry stamped for r, 0 when it was never given
\* to apply
AppliedAt(r) ==
    IF Applied(r)
    THEN CHOOSE i \in 1..Len(fed) : /\ fed[i].index = stamped[r][1].index
                                      /\ fed[i].term = stamped[r][1].term
    ELSE 0

\* C17: on a leader, for two proposals p1 and p2 of the clients where p1 was
\* enqueued before p2 (the handlers send in the order of their requests) and
\* both were accepted, p1 has the smaller proposed index, p1 is applied
\* before p2, and p1's completion is resolved no later than p2's.
C17_AcceptedInOrder ==
    \A p1, p2 \in Carrying :
        (p1 < p2 /\ Accepted(p1) /\ Accepted(p2)) =>
            /\ stamped[p1][1].index < stamped[p2][1].index
            /\ Applied(p2) => (Applied(p1) /\ AppliedAt(p1) < AppliedAt(p2))
            /\ completion[p2] # "pending" => completion[p1] # "pending"


\* no client asked for the symbol "s1" of the orders to be created
SymbolUnknown == \A q \in ClientReqs : client[q].kind # "create_symbol"

\* C18: a place_order for a symbol that does not exist is rejected before
\* consensus: no log entry is appended for it and the client does not get OK.
C18_UnknownSymbolRejected ==
    \A r \in ClientReqs :
        (client[r].kind = "place_order" /\ SymbolUnknown) =>
            /\ stamped[r] = None
            /\ client[r].reply # "ok"

\* C23: the hard state (term, vote, commit) given to set_hardstate and the
\* conf_state given to set_conf_state are what the store returns as its
\* initial state after the process was killed and started again: the node
\* has not forgotten its vote in its current term.
C23_RaftStateSurvivesRestart ==
    [][(status = "down" /\ status' # "down"
          /\ store.mem_storage.hard_state.vote # 0) =>
          /\ store'.mem_storage.hard_state = store.mem_storage.hard_state
          /\ store'.mem_storage.conf_state = store.mem_storage.conf_state
          /\ raft_group'.term = store.mem_storage.hard_state.term
          /\ raft_group'.vote = store.mem_storage.hard_state.vote]_vars

\* C24: a node started as bootstrap leader with no snapshot file starts, for
\* every configured node id, from a synthetic snapshot at index 1, term 1
\* whose voter set is exactly {its own id}, and so wins its first election
\* without waiting for the vote of a peer.
C24_BootstrapVotersSelf ==
    (files.snapshot = None /\ restarts = 0) =>
        /\ store.mem_storage.snapshot_metadata =
              SnapshotMetadata(1, 1, {raft_group.id})
        /\ raft_group.state # "Candidate"

\* the AddNode of peer j is committed: the log holds it at or below the
\* commit index
AddCommitted(j) ==
    \E i \in 1..Len(store.mem_storage.entries) :
        /\ store.mem_storage.entries[i].entry_type = "EntryConfChange"
        /\ store.mem_storage.entries[i].data = Some(ConfChange("AddNode", j))
        /\ store.mem_storage.entries[i].index <= raft_group.committed

\* C25: the initialisation routine of the leader proposes the AddNode of the
\* peers in node_list order, and at the moment it proposes the AddNode of a
\* peer, the AddNode of every earlier peer of the list is committed.
C25_AddsAwaitCommit ==
    [][(~init_task.waiting /\ init_task'.waiting) =>
          \A j \in node_list :
              (1 < j /\ j < init_task.next) => AddCommitted(j)]_vars

\* the proposal ended as an appended entry: one more entry in the log, the
\* proposal stamped with its index at the back of the queue, unresolved
EndsQueued(w, w2, p) ==
    /\ LastIndex(w2) = LastIndex(w) + 1
    /\ w2.proposed = Append(w.proposed, [p EXCEPT !.proposed = LastIndex(w) + 1])
    /\ w2.completion[p.req] = "pending"

\* the proposal ended as a failure: nothing appended, the queue as it was,
\* the completion resolved without success
EndsFailed(w, w2, p) ==
    /\ LastIndex(w2) = LastIndex(w)
    /\ w2.proposed = w.proposed
    /\ w2.completion[p.req] \in {"false", "closed"}

\* every proposal of ps, drained in turn from the state w, ends one way
RECURSIVE DrainEnds(_, _)
DrainEnds(w, ps) ==
    \/ ps = <<>>
    \/ /\ EndsQueued(w, propose(w, Head(ps)), Head(ps))
          \/ EndsFailed(w, propose(w, Head(ps)), Head(ps))
       /\ DrainEnds(propose(w, Head(ps)), Tail(ps))

QueueReqs(queue) == {queue[i].req : i \in 1..Len(queue)}

\* the place of request r in a queue that holds it
QueuePlace(queue, r) == CHOOSE i \in 1..Len(queue) : queue[i].req = r

\* C27: after each Ready is processed, the in-flight queue holds no proposal
\* with proposed_at_index at or below the highest index applied in that
\* Ready; every removed proposal was resolved with success; no proposal with
\* a larger proposed_at_index was resolved or removed; and the remaining
\* proposals keep their relative order.
C27_QueueAfterReady ==
    [][(status = "up" /\ status' = "up"
          /\ raft_group'.applied > raft_group.applied) =>
          /\ \A i \in 1..Len(proposed') :
                proposed'[i].proposed > raft_group'.applied
          /\ \A r \in QueueReqs(proposed) \ QueueReqs(proposed') :
                completion'[r] = "true"
          /\ \A i \in 1..Len(proposed) :
                proposed[i].proposed > raft_group'.applied =>
                    /\ proposed[i].req \in QueueReqs(proposed')
                    /\ completion'[proposed[i].req] = "pending"
          /\ \A q, r \in QueueReqs(proposed) \cap QueueReqs(proposed') :
                QueuePlace(proposed, q) < QueuePlace(proposed, r) =>
                    QueuePlace(proposed', q) < QueuePlace(proposed', r)]_vars

\* C28: the snapshot written by save_snapshot(state_bytes, applied_index)
\* records last_included_index = applied_index, the index up to which the
\* state bytes reflect applied entries; the recorded index never exceeds
\* that applied index.
C28_SnapshotAtApplied ==
    [][(status = "up" /\ status' = "up"
          /\ last_index_snapshot' # last_index_snapshot) =>
          /\ files'.snapshot # None
          /\ files'.snapshot[1].index = raft_group.applied
          /\ files'.snapshot[1].index <= raft_group'.applied]_vars

\* a snapshot was saved in a turn that began with an entry committed by the
\* peers and not yet applied: the snapshot is at the applied index of the
\* save, the entry was applied after it
C28_Witness ==
    /\ status = "up"
    /\ saved # None /\ files.snapshot # None
    /\ files.snapshot[1].index = saved[1].applied
    /\ saved[1].after > saved[1].applied
    /\ raft_group.applied = saved[1].after
    /\ stamped[AddReq(3)] # None
    /\ stamped[AddReq(3)][1].index = saved[1].after
    /\ stamped[AddReq(2)] # None
    /\ stamped[AddReq(2)][1].index < saved[1].after
    /\ {2, 3} \subseteq raft_group.voters


\* the entries the segment files of a directory hold
FileEntries(dir) ==
    UNION {{dir.segment_files[s].records[k] :
               k \in 1..Len(dir.segment_files[s].records)} :
           s \in DOMAIN dir.segment_files}

\* C29: after a turn of the loop that saved a snapshot, no segment file is
\* left whose last entry has an index at or below the snapshot index, and
\* every entry of the log above the snapshot index is in a segment file
C29_SaveKeepsLaterSegments ==
    [][(status = "up" /\ status' = "up"
          /\ last_index_snapshot' # last_index_snapshot) =>
          /\ \A s \in DOMAIN files'.segment_files :
                \E f \in {files'.segment_files[s]} :
                    f.records # <<>> =>
                        f.records[Len(f.records)].index > files'.snapshot[1].index
          /\ \A i \in 1..Len(store'.mem_storage.entries) :
                store'.mem_storage.entries[i].index > files'.snapshot[1].index
                    => store'.mem_storage.entries[i] \in FileEntries(files')]_vars


(***************************************************************************)
(* The node alone in its cluster, killed and started again, on a disk that *)
(* can fail: in some turns the segment file cannot be written and          *)
(* append_entries returns Err.                                             *)
(***************************************************************************)
\* one turn of the loop that takes the proposals and whose Ready has
\* entries append_entries fails to write
IterProposalsIoError ==
    /\ status = "up"
    /\ proposals # <<>>
    /\ \E election \in BOOLEAN, save_due \in BOOLEAN :
          /\ election => raft_group.term < MaxTerm
          /\ \E w0 \in {save_when_due(tick(propose_all(World, proposals),
                                           election), save_due)} :
                /\ w0.status = "up"
                /\ w0.raft_group.unstable # <<>>
                /\ \E w \in {on_ready_io_error(w0, clock)} :
                       Becomes(w) /\ AfterTurn(w, save_due)
    /\ proposals' = <<>>
    /\ lost' = lost

NextIoError ==
    \/ \E r \in 1..MaxRequests : Submit(r)
    \/ \E r \in 1..MaxRequests : Reply(r)
    \/ IterProposals
    \/ IterSleep
    \/ IterProposalsIoError
    \/ Crash
    \/ Restart

SpecIoError == InitNode({1}) /\ [][NextIoError]_vars

\* C30: a turn of the loop in which append_entries fails leaves the node
\* terminated or with the index up to which the algorithm counts the log as
\* persisted, and its commit index, where they were
C30_FailedAppendNotAdvanced ==
    [][IterProposalsIoError =>
          \/ status' # "up"
          \/ /\ raft_group'.persisted <= raft_group.persisted
             /\ raft_group'.committed <= raft_group.committed]_vars


(***************************************************************************)
(* The state machine driven by itself: every step one entry that carries   *)
(* the command of a client's proposal is committed and goes through the    *)
(* apply path of on_ready (handle_committed_entries, notice_proposed).     *)
(* last_op is [op, cmd, before]: the command applied last and the state    *)
(* machine before it.                                                      *)
(***************************************************************************)
\* the CreateSymbolRequests of the clients
CreateSymbolRequests ==
    {[symbol |-> "s1", min_quantity |-> a, max_quantity |-> b,
      min_amount |-> c, max_amount |-> d] :
        a \in Qtys, b \in Qtys, c \in Qtys, d \in Qtys}

\* the commands the handlers of match_service.rs serialize, and bytes that
\* are no command
EngineCmds ==
    {MatchCmd("CreateSymbol", None, Some(create_symbol(request))) :
        request \in CreateSymbolRequests}
    \cup {MatchCmd("RemoveSymbol", None, Some(NewSymbol(n, 0, 0, 0, 0))) :
            n \in {"s1", "s2"}}
    \cup {MatchCmd("PlaceOrder",
                   Some(NewOrder(id, n, "Limit", side, price, q, 0)), None) :
            id \in {1, 2}, n \in {"s1", "s2"}, side \in OrderSides,
            price \in Prices, q \in Qtys}
    \cup {MatchCmd("CancelOrder",
                   Some(NewOrder(id, n, "Limit", "Buy", 0, 0, 0)), None) :
            id \in {1, 2}, n \in {"s1", "s2"}}
    \cup {Garbage}

InitEngine ==
    /\ state_machine = NewStateMatch
    /\ fed = <<>>
    /\ proposed = <<>>
    /\ completion = <<"unsent">>
    /\ status = "up"
    /\ last_op = [op |-> "none", cmd |-> Garbage, before |-> NewStateMatch]
    /\ nops = 0
    /\ clock = 0
    /\ raft_group = 0 /\ store = 0 /\ files = 0
    /\ last_index_snapshot = 0
    /\ proposals = <<>> /\ client = <<>>
    /\ node_list = {} /\ init_task = 0 /\ stamped = <<>>
    /\ lost = {} /\ applied_states = <<>> /\ saved = <<>> /\ crash_info = <<>>
    /\ just_restarted = FALSE /\ restarts = 0
    /\ book = NewBook /\ trades = <<>> /\ crossings = <<>>
    /\ placedQty = 0 /\ tradedQty = 0 /\ cancelledQty = 0
    /\ replicas = <<>> /\ log = <<>>
    /\ SegmentIdle
    /\ TransportIdle

\* the entry of index nops + 2 carries the command of the proposal in
\* flight; on_ready hands it to handle_committed_entries and calls
\* notice_proposed with the index that returns
EngineApply ==
    /\ nops < MaxEngineOps
    /\ \E cmd \in EngineCmds :
          \E st \in {handle_committed_entries(
                        state_machine, {}, fed,
                        <<Entry(nops + 2, 1, "EntryNormal", Some(cmd))>>, clock)} :
          \E np \in {notice_proposed(st.last_index,
                                     <<[req |-> 1, proposed |-> nops + 2]>>,
                                     <<"pending">>)} :
             /\ state_machine' = st.state_machine
             /\ fed' = st.fed
             /\ proposed' = np.proposed
             /\ completion' = np.completion
             /\ last_op' = [op |-> cmd.cmd, cmd |-> cmd, before |-> state_machine]
    /\ nops' = nops + 1
    /\ UNCHANGED <<book, trades, crossings, placedQty, tradedQty, cancelledQty,
                   clock, replicaVars, segmentVars, transportVars, raft_group,
                   store, files,
                   last_index_snapshot, status, proposals, client, node_list,
                   init_task, stamped, lost, applied_states, saved, crash_info,
                   just_restarted, restarts>>

NextEngine == EngineApply

SpecEngine == InitEngine /\ [][NextEngine]_vars

\* the symbol a PlaceOrder or CancelOrder names cannot trade in engine e
NotTradable(e, name) ==
    \/ name \notin DOMAIN e.symbols
    \/ e.symbols[name].status # "Active"

\* the command is one the engine rejects in state e
Rejected(e, cmd) ==
    \/ cmd = Garbage
    \/ /\ cmd.cmd \in {"PlaceOrder", "CancelOrder"}
       /\ NotTradable(e, cmd.order[1].symbol)
    \/ /\ cmd.cmd = "PlaceOrder"
       /\ ~NotTradable(e, cmd.order[1].symbol)
       /\ \/ ~validate_price(e.symbols[cmd.order[1].symbol], cmd.order[1].price)
          \/ ~validate_quantity(e.symbols[cmd.order[1].symbol],
                                cmd.order[1].quantity)

\* C31: an entry whose PlaceOrder or CancelOrder names a symbol that is
\* unknown or not active, whose PlaceOrder has a price or quantity outside
\* the bounds of its symbol, or whose bytes are no command, leaves the symbols
\* and the order books as they were, leaves the loop running, and resolves
\* its proposal with success
C31_RejectedLeavesStateAndAcks ==
    (last_op.op # "none" /\ Rejected(last_op.before, last_op.cmd)) =>
        /\ state_machine.symbols = last_op.before.symbols
        /\ state_machine.matchers = last_op.before.matchers
        /\ status = "up"
        /\ completion[1] = "true"
        /\ proposed = <<>>

C31_Witness ==
    /\ last_op.op = "PlaceOrder"
    /\ last_op.cmd.order[1].symbol = "s1"
    /\ "s1" \in DOMAIN last_op.before.matchers
    /\ last_op.before.matchers["s1"].orders_by_id # EmptyMap
    /\ ~validate_quantity(last_op.before.symbols["s1"],
                          last_op.cmd.order[1].quantity)
    /\ completion[1] = "true"


\* the command applied last went to the matcher of its symbol: a limit
\* order placed always changes the book
Handed == state_machine.matchers # last_op.before.matchers

\* C32: a PlaceOrder on an active symbol created from a CreateSymbolRequest
\* goes to the matcher exactly when its quantity is within the min_quantity
\* and max_quantity of that request and its price within the price bounds of
\* the symbol
C32_BoundsAreTheRequests ==
    \A request \in CreateSymbolRequests :
        (/\ last_op.op = "PlaceOrder"
         /\ last_op.cmd.order[1].symbol \in DOMAIN last_op.before.matchers
         /\ last_op.before.symbols[last_op.cmd.order[1].symbol] =
                create_symbol(request)) =>
            (Handed <=>
                /\ last_op.cmd.order[1].quantity >= request.min_quantity
                /\ last_op.cmd.order[1].quantity <= request.max_quantity
                /\ validate_price(create_symbol(request),
                                  last_op.cmd.order[1].price))


\* the places of fed that hold an entry of index i
FedAt(given, i) == {k \in 1..Len(given) : given[k].index = i}

\* C33: in a turn of the loop the entries with data that become applied,
\* whether the Ready or the light Ready delivered them, are handled once
\* each and in the order of their indexes: a conf change goes to the
\* algorithm and to the conf_state of the store and not to the state
\* machine, every other entry is given to apply with its index and data
C33_CommittedHandledOnceInOrder ==
    [][(status = "up" /\ status' = "up") =>
          /\ SubSeq(fed', 1, Len(fed)) = fed
          /\ \A k \in (Len(fed) + 1)..Len(fed') :
                /\ fed'[k].index > raft_group.applied
                /\ fed'[k].index <= raft_group'.applied
                /\ k > 1 => fed'[k - 1].index < fed'[k].index
          /\ store'.mem_storage.conf_state = raft_group'.voters
          /\ \A j \in 1..Len(store'.mem_storage.entries) :
                \E e \in {store'.mem_storage.entries[j]} :
                   (/\ e.index > raft_group.applied
                    /\ e.index <= raft_group'.applied
                    /\ e.data # <<>>) =>
                       IF e.entry_type = "EntryConfChange"
                       THEN /\ FedAt(fed', e.index) = {}
                            /\ e.data[1].node_id \in raft_group'.voters
                       ELSE /\ Cardinality(FedAt(fed', e.index)) = 1
                            /\ \A k \in FedAt(fed', e.index) :
                                  /\ fed'[k].data = e.data
                                  /\ fed'[k].term = e.term]_vars

\* the order of a client was applied by the leader alone in its
\* configuration, which commits in advance (light Ready); the AddNode of
\* peer 3 was committed by the acknowledgement of peer 2 (Ready)
C33_Witness ==
    /\ status = "up"
    /\ {2, 3} \subseteq raft_group.voters
    /\ store.mem_storage.conf_state = raft_group.voters
    /\ stamped[1] # None /\ stamped[AddReq(2)] # None
    /\ Applied(1)
    /\ stamped[1][1].index < stamped[AddReq(2)][1].index


(***************************************************************************)
(* The transport to one peer (raft_client.rs).  peers is the Option of the *)
(* PeerClient of the peer, [invalid, queued]: its flag and the number of   *)
(* requests in its channel.  net is [up, stream, breaks, delivered, last]: *)
(* whether the peer is reachable; the stream of the PeerClient's task,     *)
(* "none", "open" or "broken" (failed, the task has not returned yet); and *)
(* as history the number of breaks, whether the peer received a message    *)
(* since it last became unreachable, what the last post_data did, and the  *)
(* parity of the number of calls of post_data.                             *)
(***************************************************************************)
\* PeerClient::new: the connection and the channel; the task is spawned
PeerClient_new == [invalid |-> FALSE, queued |-> 0]

\* sender.try_send: a full channel drops the request
try_send(pc) ==
    IF pc.queued < PeerChannelSize THEN [pc EXCEPT !.queued = @ + 1] ELSE pc

\* RaftClient::post_data that leaves an invalid client in the map
post_data_KeepInvalid(pc, link) ==
    IF pc = None
    THEN IF link.up
         THEN [peers |-> Some(try_send(PeerClient_new)),
               net |-> [link EXCEPT !.stream = "open", !.last = "connected"]]
         ELSE [peers |-> None, net |-> [link EXCEPT !.last = "connect_failed"]]
    ELSE IF pc[1].invalid
    THEN [peers |-> pc, net |-> [link EXCEPT !.last = "removed"]]
    ELSE [peers |-> Some(try_send(pc[1])),
          net |-> [link EXCEPT !.last = IF pc[1].queued < PeerChannelSize
                                        THEN "queued" ELSE "dropped"]]

\* RaftClient::post_data of a message to the peer: [peers, net]
post_data(pc, link) ==
    IF pc = None
    THEN \* PeerClient::new
         IF link.up
         THEN [peers |-> Some(try_send(PeerClient_new)),
               net |-> [link EXCEPT !.stream = "open", !.last = "connected"]]
         ELSE [peers |-> None, net |-> [link EXCEPT !.last = "connect_failed"]]
    ELSE IF pc[1].invalid
    THEN [peers |-> None, net |-> [link EXCEPT !.last = "removed"]]
    ELSE [peers |-> Some(try_send(pc[1])),
          net |-> [link EXCEPT !.last = IF pc[1].queued < PeerChannelSize
                                        THEN "queued" ELSE "dropped"]]

linkIdle == <<matcherVars, replicaVars, nodeVars, segmentVars, server_mutex,
              handlers, chan>>

InitPeerClient ==
    /\ peers = None
    /\ net = [up |-> TRUE, stream |-> "none", breaks |-> 0, delivered |-> FALSE,
              last |-> "none", posts |-> 0]
    /\ server_mutex = 0 /\ handlers = <<>> /\ chan = 0
    /\ book = NewBook /\ trades = <<>> /\ crossings = <<>>
    /\ placedQty = 0 /\ tradedQty = 0 /\ cancelledQty = 0 /\ nops = 0
    /\ last_op = NoOp
    /\ clock = 0
    /\ replicas = <<>> /\ log = <<>>
    /\ NodeIdle
    /\ SegmentIdle

\* the dispatcher of start_run_out_message takes a message for the peer
\* from out_mailbox and calls post_data
PostData ==
    /\ \E r \in {post_data(peers, net)} :
          /\ peers' = r.peers
          /\ net' = [r.net EXCEPT !.posts = 1 - @]
    /\ UNCHANGED linkIdle

\* the task of the PeerClient streams a request of the channel to the peer
StreamForward ==
    /\ peers # None /\ net.stream = "open" /\ net.up
    /\ peers[1].queued > 0
    /\ peers' = Some([peers[1] EXCEPT !.queued = @ - 1])
    /\ net' = [net EXCEPT !.delivered = TRUE]
    /\ UNCHANGED linkIdle

\* the peer becomes unreachable: an open stream breaks
PeerDown ==
    /\ net.up /\ net.breaks < MaxBreaks
    /\ net' = [net EXCEPT !.up = FALSE, !.breaks = @ + 1, !.delivered = FALSE,
                          !.stream = IF @ = "open" THEN "broken" ELSE @]
    /\ UNCHANGED <<peers, linkIdle>>

\* the peer is reachable again
PeerUp ==
    /\ ~net.up
    /\ net' = [net EXCEPT !.up = TRUE]
    /\ UNCHANGED <<peers, linkIdle>>

\* stream_messages returns Err in the task of the PeerClient: the task
\* stores invalid and ends, its receiver and what it holds are dropped
StreamTaskFails ==
    /\ net.stream = "broken"
    /\ peers' = Some([invalid |-> TRUE, queued |-> 0])
    /\ net' = [net EXCEPT !.stream = "none"]
    /\ UNCHANGED linkIdle

NextPeerClient ==
    \/ PostData
    \/ StreamForward
    \/ PeerDown
    \/ PeerUp
    \/ StreamTaskFails

\* the tasks run, and Raft keeps sending: heartbeats and retransmissions
SpecPeerClient ==
    /\ InitPeerClient /\ [][NextPeerClient]_vars
    /\ WF_vars(PostData) /\ WF_vars(StreamForward) /\ WF_vars(StreamTaskFails)

\* C34: a broken stream leads to the PeerClient marked invalid; post_data
\* on an invalid PeerClient removes it from the map; post_data without a
\* PeerClient attempts a connection; post_data always returns, a full channel
\* drops the message; and once the peer stays reachable it receives messages
C34_BrokenStreamReconnects ==
    /\ (net.stream = "broken") ~> (peers # None /\ peers[1].invalid)
    /\ [][(net'.posts # net.posts /\ peers # None /\ peers[1].invalid) =>
             (peers' = None /\ net'.last = "removed")]_vars
    /\ [][(net'.posts # net.posts /\ peers = None) =>
             net'.last \in {"connected", "connect_failed"}]_vars
    /\ [](ENABLED PostData)
    /\ (net.up /\ net.breaks = MaxBreaks) ~> net.delivered

\* the peer received a message over the connection made after the last
\* break, after post_data had removed the invalid PeerClient
C34_Witness ==
    /\ net.breaks = MaxBreaks /\ net.up /\ net.delivered
    /\ peers # None /\ ~peers[1].invalid
    /\ net.last = "dropped"


\* C35: a proposal resolved with success has its own payload committed at
\* its proposed_at_index: the entry the log holds at that index when the
\* proposal is resolved with true is the entry stamped for it, also after
\* the node lost leadership and a later leader replaced the entry.
C35_SuccessIsOwnEntry ==
    [][\A r \in ReqIds :
          (completion[r] # "true" /\ completion'[r] = "true") =>
              /\ stamped'[r] # None
              /\ \E i \in 1..Len(store'.mem_storage.entries) :
                    /\ store'.mem_storage.entries[i].index = stamped'[r][1].index
                    /\ store'.mem_storage.entries[i].term = stamped'[r][1].term]_vars


\* C36: after any sequence of place and cancel operations on a matcher,
\* limit and market orders, the book is never crossed: whenever both sides
\* are non-empty, best_bid < best_ask.
C36_BookNeverCrossed ==
    (get_best_bid(book) # None /\ get_best_ask(book) # None) =>
        get_best_bid(book)[1] < get_best_ask(book)[1]


\* a market buy traded with part of the best ask while a bid rests below it:
\* both sides hold orders after a place that matched
C36_Witness ==
    /\ last_op.op = "place" /\ last_op.order[1].order_type = "Market"
    /\ trades # <<>>
    /\ get_best_bid(book) # None /\ get_best_ask(book) # None
    /\ get_best_bid(book)[1] < get_best_ask(book)[1]


(***************************************************************************)
(* The node among its peers with the scheduling of the runtime: the loop   *)
(* of the node takes its turns, the task that adds the followers and the   *)
(* handlers run, and what the peers send arrives.                          *)
(***************************************************************************)
\* the leader holds entries that no quorum acknowledged yet
Uncommitted ==
    /\ raft_group.state = "Leader"
    /\ raft_group.committed < LastIndex(World)

SpecRegainLive ==
    /\ SpecRegain
    \* select! takes the proposals channel when it holds proposals
    /\ (proposals # <<>>) ~> (proposals = <<>>)
    \* a quorum is reachable: the entries of a leader get acknowledged
    /\ Uncommitted ~> ~Uncommitted
    /\ WF_vars(InitSend /\ Calm')
    /\ WF_vars(InitAwait /\ Calm')
    /\ WF_vars(\E r \in ClientReqs : Reply(r) /\ Calm')

\* C37: on a node that stays leader with a reachable quorum, every proposal
\* taken from the proposal channel eventually has its completion resolved:
\* no stamped proposal stays in the in-flight queue while the node leads
\* for ever, a conf-change proposal and a proposal whose Ready carried only
\* entries without payload included.
C37_TakenEventuallyResolved ==
    \A r \in ReqIds :
        (r \in QueueReqs(proposed)) ~>
            (completion[r] # "pending" \/ raft_group.state # "Leader")


(***************************************************************************)
(* The handlers, the server mutex and the channels of the node loop        *)
(* (match_service.rs, raft_service.rs, server.rs, node.rs).  handlers maps *)
(* a handler to its position: "idle", "lock" (awaits the mutex), "send"    *)
(* (holds the mutex and awaits the send on its channel) or "await" (a      *)
(* client handler awaits the completion of its proposal).  chan holds the  *)
(* number of items in the three channels and whether the loop runs.        *)
(***************************************************************************)
Handlers == 1..MaxHandlers

\* the channel a handler sends to
ChannelOf(h) == IF h <= ClientHandlers THEN "tx_proposals" ELSE "in_mailbox"

\* a drain that takes nothing
drain_Nothing(n) == n

\* recv and then try_recv until the channel is empty
drain(n) == 0

\* Sender::try_send of k messages: what does not fit is dropped
try_send_all(n, k) == MinOf(MailboxSize, n + k)

handlerIdle == <<matcherVars, replicaVars, nodeVars, segmentVars, peers, net>>

InitHandlers ==
    /\ server_mutex = 0
    /\ handlers = [h \in Handlers |-> "idle"]
    /\ chan = [tx_proposals |-> 0, in_mailbox |-> 0, out_mailbox |-> 0,
               loop |-> "up"]
    /\ peers = <<>> /\ net = 0
    /\ book = NewBook /\ trades = <<>> /\ crossings = <<>>
    /\ placedQty = 0 /\ tradedQty = 0 /\ cancelledQty = 0 /\ nops = 0
    /\ last_op = NoOp
    /\ clock = 0
    /\ replicas = <<>> /\ log = <<>>
    /\ NodeIdle
    /\ SegmentIdle

\* a request or a message of the stream arrives: the handler asks for the
\* mutex, server::instance().lock()
HandlerCall(h) ==
    /\ handlers[h] = "idle"
    /\ handlers' = [handlers EXCEPT ![h] = "lock"]
    /\ UNCHANGED <<server_mutex, chan, handlerIdle>>

\* lock().await returns
HandlerLock(h) ==
    /\ handlers[h] = "lock"
    /\ server_mutex = 0
    /\ server_mutex' = h
    /\ handlers' = [handlers EXCEPT ![h] = "send"]
    /\ UNCHANGED <<chan, handlerIdle>>

\* send(..).await returns, the guard of the mutex is dropped: Ok when the
\* channel has room, Err when the loop is gone
HandlerSend(h) ==
    /\ handlers[h] = "send"
    /\ \/ /\ chan.loop = "up"
          /\ chan[ChannelOf(h)] < MailboxSize
          /\ chan' = [chan EXCEPT ![ChannelOf(h)] = @ + 1]
          /\ handlers' = [handlers EXCEPT ![h] =
                             IF h <= ClientHandlers THEN "await" ELSE "idle"]
       \/ /\ chan.loop = "down"
          /\ chan' = chan
          /\ handlers' = [handlers EXCEPT ![h] = "idle"]
    /\ server_mutex' = 0
    /\ UNCHANGED handlerIdle

\* rx.await of a client handler returns: its proposal was taken by the loop
\* and resolved or dropped, or the loop is gone
HandlerReturn(h) ==
    /\ handlers[h] = "await"
    /\ chan.tx_proposals = 0
    /\ handlers' = [handlers EXCEPT ![h] = "idle"]
    /\ UNCHANGED <<server_mutex, chan, handlerIdle>>

\* a turn of the loop after select!: on_ready gives its messages to
\* out_mailbox with try_send
LoopTurn(c, sent) ==
    [c EXCEPT !.out_mailbox = try_send_all(@, sent)]

\* select! takes the branch of proposals.recv()
LoopProposals ==
    /\ chan.loop = "up"
    /\ chan.tx_proposals > 0
    /\ \E sent \in 0..1 :
          chan' = LoopTurn([chan EXCEPT !.tx_proposals = drain(@)], sent)
    /\ UNCHANGED <<server_mutex, handlers, handlerIdle>>

\* select! takes the branch of my_mailbox.recv()
LoopMailbox ==
    /\ chan.loop = "up"
    /\ chan.in_mailbox > 0
    /\ \E sent \in 0..1 :
          chan' = LoopTurn([chan EXCEPT !.in_mailbox = drain(@)], sent)
    /\ UNCHANGED <<server_mutex, handlers, handlerIdle>>

\* select! takes the branch of the sleep
LoopSleep ==
    /\ chan.loop = "up"
    /\ \E sent \in 0..1 : chan' = LoopTurn(chan, sent)
    /\ UNCHANGED <<server_mutex, handlers, handlerIdle>>

\* the loop panics: its receivers are dropped
LoopPanic ==
    /\ chan.loop = "up"
    /\ chan' = [chan EXCEPT !.loop = "down", !.tx_proposals = 0,
                            !.in_mailbox = 0]
    /\ UNCHANGED <<server_mutex, handlers, handlerIdle>>

\* the thread of start_run_out_message takes a message of out_mailbox
OutDispatch ==
    /\ chan.out_mailbox > 0
    /\ chan' = [chan EXCEPT !.out_mailbox = @ - 1]
    /\ UNCHANGED <<server_mutex, handlers, handlerIdle>>

NextHandlers ==
    \/ \E h \in Handlers : HandlerCall(h)
    \/ \E h \in Handlers : HandlerLock(h)
    \/ \E h \in Handlers : HandlerSend(h)
    \/ \E h \in Handlers : HandlerReturn(h)
    \/ LoopProposals
    \/ LoopMailbox
    \/ LoopSleep
    \/ LoopPanic
    \/ OutDispatch

\* select! takes a branch that stays ready, and a send that can return does
SpecHandlers ==
    /\ InitHandlers /\ [][NextHandlers]_vars
    /\ WF_vars(LoopProposals) /\ WF_vars(LoopMailbox)
    /\ \A h \in Handlers : WF_vars(HandlerSend(h))

\* handler h holds the mutex and its send waits for room in the channel
BlockedOnFull(h) ==
    /\ handlers[h] = "send"
    /\ chan.loop = "up"
    /\ chan[ChannelOf(h)] = MailboxSize

\* C38: a handler awaits its send on the bounded channel with the server
\* mutex held; the loop and the handlers never block each other: the loop of
\* a running node can always take a turn, whoever holds the mutex and however
\* full out_mailbox is, and a handler blocked on a full channel is
\* eventually unblocked by the loop draining that channel.
C38_HandlersAndLoopNeverDeadlock ==
    /\ [](\A h \in Handlers : handlers[h] = "send" <=> server_mutex = h)
    /\ [](chan.loop = "up" => ENABLED LoopSleep)
    /\ [](chan.loop = "up" /\ chan.tx_proposals > 0 => ENABLED LoopProposals)
    /\ [](chan.loop = "up" /\ chan.in_mailbox > 0 => ENABLED LoopMailbox)
    /\ \A h \in Handlers : BlockedOnFull(h) ~> (handlers[h] # "send")

\* a client handler and a peer handler went through a full channel: the
\* first sent after the loop drained tx_proposals while the other waited
\* for the mutex, which it holds now, blocked on the full in_mailbox
C38_Witness ==
    /\ handlers[1] = "await" /\ handlers[2] = "await"
    /\ BlockedOnFull(MaxHandlers)
    /\ handlers[MaxHandlers - 1] = "lock"
    /\ chan.out_mailbox = MailboxSize


\* C39: closing a segment and opening it again with the same path and
\* start_index yields the same end_index and the same payload at every
\* index in [start_index, end_index] as before closing: the index-to-offset
\* map rebuilt from the file equals the map built by the appends.
C39_ReopenKeepsEntries ==
    [][(~seg_hist.reopened /\ seg_hist'.reopened /\ seg_hist.truncates = 0) =>
          /\ seg'.start_index = seg.start_index
          /\ seg'.end_index = seg.end_index
          /\ seg'.entry_positions = seg.entry_positions
          /\ \A j \in seg.start_index..seg.end_index :
                Segment_read_entry(seg', seg_file', j) =
                    Segment_read_entry(seg, seg_file, j)]_vars


(***************************************************************************)
(* The log store of a follower: started over an empty directory without    *)
(* the bootstrap snapshot, it is given the entries of the leader and the   *)
(* snapshots the leader sends, and is built again from its directory       *)
(* after the process was killed.                                           *)
(***************************************************************************)
\* the snapshots of a leader whose configuration is {1, 2}
LeaderSnapshots(m) ==
    {[index |-> i, term |-> t, conf_state |-> {1, 2}, data |-> <<>>] :
        i \in (last_index(m) + 1)..(MaxIndex - 1), t \in 1..MaxTerm}

InitFollowerStorage ==
    /\ files = NewFiles
    /\ store = FileStorage_new(NewFiles, FALSE).store
    /\ status = "up"
    /\ just_restarted = FALSE /\ restarts = 0
    /\ raft_group = 0 /\ state_machine = 0
    /\ proposed = <<>> /\ last_index_snapshot = 0
    /\ proposals = <<>> /\ completion = <<>> /\ client = <<>>
    /\ node_list = {} /\ init_task = 0 /\ stamped = <<>> /\ fed = <<>>
    /\ lost = {} /\ applied_states = <<>> /\ saved = <<>> /\ crash_info = <<>>
    /\ book = NewBook /\ trades = <<>> /\ crossings = <<>>
    /\ placedQty = 0 /\ tradedQty = 0 /\ cancelledQty = 0 /\ nops = 0
    /\ last_op = NoOp
    /\ clock = 0
    /\ replicas = <<>> /\ log = <<>>
    /\ SegmentIdle
    /\ TransportIdle

\* Node::handle_snapshot, the store's part: FileStorage::apply_snapshot with
\* the snapshot of a Ready
StorageInstall ==
    /\ status = "up"
    /\ Cardinality(DOMAIN files.snapshot_files) < MaxInstalls
    /\ Contiguous(store.mem_storage.entries)
    /\ \E snap \in LeaderSnapshots(store.mem_storage) :
          /\ snap.term >= mem_term(store.mem_storage, last_index(store.mem_storage))
          /\ \E r \in {FileStorage_apply_snapshot(store, files, snap)} :
                /\ store' = r.store
                /\ files' = r.files
    /\ just_restarted' = FALSE
    /\ UNCHANGED <<status, restarts, storageIdle>>

\* the follower is killed and started again: FileStorage::new(base_path,
\* false) over the directory
FollowerRestart ==
    /\ status = "up"
    /\ restarts < MaxRestarts
    /\ \E r \in {FileStorage_new(files, FALSE)} :
          /\ store' = r.store
          /\ status' = IF r.ok THEN "up" ELSE "panicked"
    /\ restarts' = restarts + 1
    /\ just_restarted' = TRUE
    /\ UNCHANGED <<files, storageIdle>>

\* append_entries with the entries of the leader; the log of the algorithm
\* works on a working set without holes only
FollowerAppend ==
    /\ Contiguous(store.mem_storage.entries)
    /\ StorageAppend

NextFollowerStorage == FollowerAppend \/ StorageInstall \/ FollowerRestart

SpecFollowerStorage == InitFollowerStorage /\ [][NextFollowerStorage]_vars

\* the working set stands on the snapshot of index i written by
\* apply_snapshot, with entries appended on top of it
OnInstalled(fst, dir, i) ==
    /\ i \in DOMAIN dir.snapshot_files
    /\ fst.mem_storage.snapshot_metadata.index = i
    /\ fst.mem_storage.entries # <<>>

\* C40: a snapshot installed through apply_snapshot is durable: after
\* entries are appended on top of it and the node restarts without an
\* intervening save_snapshot, start-up succeeds and the working set's
\* snapshot index and conf_state are those of the installed snapshot, with
\* the appended entries following it contiguously.
C40_InstalledSnapshotDurable ==
    [][\A i \in 1..MaxIndex :
          (status = "up" /\ just_restarted' /\ OnInstalled(store, files, i)) =>
              /\ status' = "up"
              /\ store'.mem_storage.snapshot_metadata.index = i
              /\ store'.mem_storage.snapshot_metadata.conf_state =
                     files.snapshot_files[i].conf_state
              /\ store'.mem_storage.conf_state = files.snapshot_files[i].conf_state
              /\ store'.mem_storage.entries # <<>>
              /\ store'.mem_storage.entries[1].index = i + 1
              /\ Contiguous(store'.mem_storage.entries)]_vars

====
